---- MODULE Spec2Model ----
(***************************************************************************)
(* Room / replay subsystem of snake3d: the room store (meta.json and the   *)
(* replay blobs of each seed), the admission policy of addReplayToRoom,    *)
(* spawn assignment, the replay validator and the socket handlers that     *)
(* drive them.                                                             *)
(*                                                                         *)
(* A JavaScript object is a record; a property that is undefined is a     *)
(* field the record does not have.  A value whose type the code tests is   *)
(* a one-field record named by its type: [number |-> 3], [array |-> <<>>], *)
(* [string |-> "x"].  Where a function returns a value or undefined/null,  *)
(* <<>> is the missing value and <<v>> the value v.                        *)
(***************************************************************************)
EXTENDS Integers, Sequences, FiniteSets, TLC

VARIABLES
    meta,      \* seed key -> <<>> (no meta.json) or <<RoomMeta>>
    replays,   \* seed key -> set of ReplayData blobs (one file per id)
    dirs,      \* seed keys whose room directory exists
    now,       \* Date.now() of the server clock
    version,   \* "v1": the MAX_PHANTOMS = 4 store is deployed; "v2": the current one
    n,         \* number of client messages handled so far
    last,      \* the last handled message: its event, the branch taken, what was emitted
    subject,   \* <<>> or <<ReplayData>>: the replay a validator or a replay player is given
    verdict,   \* <<>> or <<result>>: what RoomValidator.validate returned for subject
    playerA,   \* <<>> or <<Phantom>>: a phantom and its ReplayPlayer built from subject
    playerB,   \* <<>> or <<Phantom>>: a second one built from the same subject
    calls,     \* connection -> <<>> or <<the handler call it has awaiting file I/O>>
    alone,     \* seed key -> the store that only the calls addressed to that seed act on
    counted    \* seed key -> addReplayToRoom calls completed, on top of the stored count

vars == <<meta, replays, dirs, now, version, n, last, subject, verdict, playerA, playerB,
          calls, alone, counted>>

\* the variables of calls in flight and of their bookkeeping
callVars == <<calls, alone, counted>>

\* the variables of the validator and of the replay players
replayVars == <<subject, verdict, playerA, playerB>>

\* the variables of the room server
serverVars == <<meta, replays, dirs, now, version, n, last>>

----------------------------------------------------------------------------
(* Bounds of the model *)

MaxOps == 4
MaxLegacyGames == 4
MaxLegacyOps == 2

(* Program constants *)

MAX_PHANTOMS == 3
MAX_SPAWN_POINTS == 4
OLD_MAX_PHANTOMS == 4
ID_PREFIX_LEN == 8

None == <<>>
Some(v) == <<v>>
IsSome(o) == o # <<>>
Val(o) == o[1]

Min2(a, b) == IF a < b THEN a ELSE b
Max2(a, b) == IF a > b THEN a ELSE b
Abs(a) == IF a < 0 THEN 0 - a ELSE a

----------------------------------------------------------------------------
(* Inputs *)

\* Player ids (socket.data.token || socket.id) as character sequences; the
\* first two agree on their first eight characters.
P1 == <<1, 1, 1, 1, 1, 1, 1, 1, 1>>
P2 == <<1, 1, 1, 1, 1, 1, 1, 1, 2>>
P3 == <<2, 2, 2, 2>>
Players == {P1, P3}

\* the sockets whose handlers may be awaiting file I/O at the same time
Connections == {"c1", "c2"}

\* no handler call in flight
CallsIdle ==
    /\ calls = [c \in Connections |-> <<>>]
    /\ alone = <<>>
    /\ counted = <<>>

\* values Date.now() returns while the model runs
Times == {1, 2}

Seeds == {42}
Scores == {10, 11}
SpawnIndices == {0, 1, 2, 3}

\* Number.prototype.toString for a non-negative integer: its decimal digits.
RECURSIVE toString(_)
toString(k) == IF k < 10 THEN <<k>> ELSE Append(toString(k \div 10), k % 10)

\* parseInt(s, 10) of a digit sequence.
RECURSIVE parseInt(_)
parseInt(s) ==
    IF Len(s) = 0 THEN 0
    ELSE 10 * parseInt(SubSeq(s, 1, Len(s) - 1)) + s[Len(s)]

SeedKeys == {toString(s) : s \in Seeds}

\* String.prototype.substring(0, k)
substring(s, k) == SubSeq(s, 1, Min2(k, Len(s)))

Vec(x, y, z) == [x |-> x, y |-> y, z |-> z]

----------------------------------------------------------------------------
(* RoomValidator.  Coordinates are integers; a distance is kept in         *)
(* thousandths of a grid unit (rounded down), so 0.1 is 100.               *)

Thousand == 10 * 100

\* r * r <= s * 10^6, decided without forming a product beyond 2^31 - 1:
\* with r = 1000 q + t it reads 2000 q t + t^2 <= 10^6 (s - q^2)
squareAtMost(r, s) ==
    LET q == r \div Thousand
        t == r % Thousand
        rest == s - q * q
    IN IF rest < 0 THEN FALSE
       ELSE IF rest > 2147 THEN TRUE
       ELSE 2 * Thousand * q * t + t * t <= Thousand * Thousand * rest

RECURSIVE isqrtBetween(_, _, _)
isqrtBetween(s, lo, hi) ==
    IF lo >= hi THEN lo
    ELSE LET mid == (lo + hi + 1) \div 2
         IN IF squareAtMost(mid, s) THEN isqrtBetween(s, mid, hi)
            ELSE isqrtBetween(s, lo, mid - 1)

\* floor(1000 * sqrt(s)) for s up to 1000^2
isqrt(s) == isqrtBetween(s, 0, Thousand * Min2(s, Thousand))

\* Math.sqrt(dx^2 + dy^2 + dz^2), in thousandths
getDistance(a, b) ==
    isqrt((b.x - a.x) * (b.x - a.x) + (b.y - a.y) * (b.y - a.y) + (b.z - a.z) * (b.z - a.z))

Origin == Vec(0, 0, 0)
AxisZ == Vec(0, 0, 1)

\* obj.field is undefined
Has(obj, field) == field \in DOMAIN obj

startPositionOf(replay) ==
    IF Has(replay.startParams, "startPosition") THEN replay.startParams.startPosition
    ELSE Origin

startDirectionOf(replay) ==
    IF Has(replay.startParams, "startDirection") THEN replay.startParams.startDirection
    ELSE AxisZ

\* distance start -> turn_1 -> ... -> turn_k, and the position reached
RECURSIVE distanceAlong(_, _)
distanceAlong(pos, log) ==
    IF Len(log) = 0 THEN 0
    ELSE getDistance(pos, log[1].position) + distanceAlong(log[1].position, Tail(log))

lastPosition(pos, log) == IF Len(log) = 0 THEN pos ELSE log[Len(log)].position

\* the leg from the last turn to deathPosition left out
calculateTotalDistanceTurnsOnly(replay) ==
    distanceAlong(startPositionOf(replay), replay.trajectoryLog)

calculateTotalDistance(replay) ==
    LET start == startPositionOf(replay)
    IN distanceAlong(start, replay.trajectoryLog)
       + getDistance(lastPosition(start, replay.trajectoryLog), replay.deathPosition)

\* the sign of the direction ignored: a point behind the origin passes
isPointOnRayEitherWay(origin, direction, target) ==
    LET dist == getDistance(origin, target)
        diff == Abs(Abs(target.x - origin.x) * Thousand - Abs(direction.x) * dist)
              + Abs(Abs(target.y - origin.y) * Thousand - Abs(direction.y) * dist)
              + Abs(Abs(target.z - origin.z) * Thousand - Abs(direction.z) * dist)
    IN IF dist = 0 THEN TRUE ELSE diff < Thousand \div 10

isPointOnRay(origin, direction, target) ==
    LET dist == getDistance(origin, target)
        diff == Abs((target.x - origin.x) * Thousand - direction.x * dist)
              + Abs((target.y - origin.y) * Thousand - direction.y * dist)
              + Abs((target.z - origin.z) * Thousand - direction.z * dist)
    IN IF dist = 0 THEN TRUE ELSE diff < Thousand \div 10

RECURSIVE continuousFrom(_, _, _, _)
continuousFrom(pos, dir, log, death) ==
    IF Len(log) = 0 THEN isPointOnRay(pos, dir, death)
    ELSE /\ isPointOnRay(pos, dir, log[1].position)
         /\ continuousFrom(log[1].position, log[1].direction, Tail(log), death)

checkContinuity(replay) ==
    continuousFrom(startPositionOf(replay), startDirectionOf(replay),
                   replay.trajectoryLog, replay.deathPosition)

Valid == [isValid |-> TRUE]
Invalid(reason) == [isValid |-> FALSE, reason |-> reason]

\* the complexity check for high scores left out
validateNoComplexityCheck(replay) ==
    LET totalDistance == calculateTotalDistance(replay)
        maxRealisticScore == Max2(10 * Thousand, totalDistance * 10)
    IN IF replay.finalScore > 0 /\ Len(replay.trajectoryLog) = 0 /\ replay.finalScore > 10
       THEN Invalid("Score without trajectory")
       ELSE IF replay.finalScore * Thousand > maxRealisticScore
       THEN Invalid("Score too high for distance")
       ELSE IF ~checkContinuity(replay)
       THEN Invalid("Trajectory is not continuous")
       ELSE Valid

validate(replay) ==
    LET totalDistance == calculateTotalDistance(replay)
        maxRealisticScore == Max2(10 * Thousand, totalDistance * 10)
    IN IF replay.finalScore > 0 /\ Len(replay.trajectoryLog) = 0 /\ replay.finalScore > 10
       THEN Invalid("Score without trajectory")
       ELSE IF replay.finalScore * Thousand > maxRealisticScore
       THEN Invalid("Score too high for distance")
       ELSE IF replay.finalScore > 1000 /\ Len(replay.trajectoryLog) < 5
       THEN Invalid("High score with suspicious low complexity")
       ELSE IF ~checkContinuity(replay)
       THEN Invalid("Trajectory is not continuous")
       ELSE Valid

----------------------------------------------------------------------------
(* Room store (RoomRepository): files of one room directory per seed key.  *)
(* A store is [meta, replays, dirs].                                       *)

\* the games counter starting at one
freshMetaCounted(seed) ==
    [seed |-> seed, total_games_played |-> 1, active_phantoms |-> <<>>,
     players_history |-> <<>>]

freshMeta(seed) ==
    [seed |-> seed, total_games_played |-> 0, active_phantoms |-> <<>>,
     players_history |-> <<>>]

getRoomMeta(st, seed) ==
    IF IsSome(st.meta[seed])
    THEN LET m == Val(st.meta[seed])
         IN IF Has(m, "players_history") THEN m
            ELSE [f \in DOMAIN m \cup {"players_history"} |->
                     IF f = "players_history" THEN <<>> ELSE m[f]]
    ELSE freshMeta(seed)

\* a write that does not create the room directory
ensureRoomDirSkipped(st, seed) == st

ensureRoomDir(st, seed) == [st EXCEPT !.dirs = @ \cup {seed}]

\* a store that keeps one meta.json for all rooms
saveRoomMetaOneFile(st, seed, m) ==
    [ensureRoomDir(st, seed) EXCEPT !.meta = [k \in DOMAIN @ |-> Some(m)]]

saveRoomMeta(st, seed, m) == [ensureRoomDir(st, seed) EXCEPT !.meta[seed] = Some(m)]

getReplay(st, seed, replayId) ==
    IF \E b \in st.replays[seed] : b.id = replayId
    THEN Some(CHOOSE b \in st.replays[seed] : b.id = replayId)
    ELSE None

saveReplay(st, seed, replay) ==
    [ensureRoomDir(st, seed) EXCEPT
        !.replays[seed] = {b \in @ : b.id # replay.id} \cup {replay}]

deleteReplay(st, seed, replayId) ==
    [st EXCEPT !.replays[seed] = {b \in @ : b.id # replayId}]

includes(seq, v) == \E i \in 1..Len(seq) : seq[i] = v

\* p.spawnIndex (undefined in records written by the v1 store): <<>> or <<k>>
spawnIndexOf(p) == IF Has(p, "spawnIndex") THEN Some(p.spawnIndex) ELSE None

\* the collision check left out
findCollisionIndexNever(phantoms, spawnIndex) == 0

\* active_phantoms.findIndex(p => p.spawnIndex === spawnIndex), 1-based; 0 is -1
findCollisionIndex(phantoms, spawnIndex) ==
    IF \E i \in 1..Len(phantoms) : spawnIndexOf(phantoms[i]) = Some(spawnIndex)
    THEN CHOOSE i \in 1..Len(phantoms) :
            /\ spawnIndexOf(phantoms[i]) = Some(spawnIndex)
            /\ \A j \in 1..(i - 1) : spawnIndexOf(phantoms[j]) # Some(spawnIndex)
    ELSE 0

\* the loop left out: worstIndex stays at its initial value
findWorstIndexFirst(phantoms) == 1

\* the loop over active_phantoms: the first index holding the lowest score
findWorstIndex(phantoms) ==
    CHOOSE i \in 1..Len(phantoms) :
        /\ \A j \in 1..Len(phantoms) : phantoms[i].score <= phantoms[j].score
        /\ \A j \in 1..(i - 1) : phantoms[j].score > phantoms[i].score

\* >= in place of >
beatsOrEquals(finalScore, score) == finalScore >= score

\* replay.finalScore > incumbent.score, replay.finalScore > worstScore
beats(finalScore, score) == finalScore > score

\* <= in place of <
hasFreeSlotOffByOne(phantoms) == Len(phantoms) <= MAX_PHANTOMS

\* meta.active_phantoms.length < MAX_PHANTOMS
hasFreeSlot(phantoms) == Len(phantoms) < MAX_PHANTOMS

\* the games counter alone, players_history left as it was
countGameOnly(m, replay) == [m EXCEPT !.total_games_played = @ + 1]

countGame(m, replay) ==
    [m EXCEPT !.total_games_played = @ + 1,
              !.players_history =
                  IF includes(@, replay.playerId) THEN @ ELSE Append(@, replay.playerId)]

\* the phantom stored without its spawn index
newPhantomOfNoSpawn(replay) ==
    [replayId |-> replay.id, score |-> replay.finalScore, playerId |-> replay.playerId]

newPhantomOf(replay) ==
    [replayId |-> replay.id, score |-> replay.finalScore,
     spawnIndex |-> replay.startParams.spawnIndex, playerId |-> replay.playerId]

\* delete the blob of slot i and drop the slot, admitting nothing in its place
replaceSlotDropping(st, seed, m, i, replay) ==
    LET st1 == deleteReplay(st, seed, m.active_phantoms[i].replayId)
        m1 == [m EXCEPT !.active_phantoms =
                  SubSeq(@, 1, i - 1) \o SubSeq(@, i + 1, Len(@))]
    IN saveRoomMeta(st1, seed, m1)

\* delete the blob of slot i, put the new phantom there, save blob and metadata
replaceSlot(st, seed, m, i, replay) ==
    LET st1 == deleteReplay(st, seed, m.active_phantoms[i].replayId)
        m1 == [m EXCEPT !.active_phantoms[i] = newPhantomOf(replay)]
    IN saveRoomMeta(saveReplay(st1, seed, replay), seed, m1)

\* [saved, branch, store]; branch names the return statement reached
addReplayToRoom(st, seed, replay) ==
    LET m == countGame(getRoomMeta(st, seed), replay)
        collisionIndex == findCollisionIndex(m.active_phantoms, replay.startParams.spawnIndex)
    IN IF collisionIndex # 0
       THEN IF beats(replay.finalScore, m.active_phantoms[collisionIndex].score)
            THEN [saved |-> TRUE, branch |-> "collision-replace",
                  store |-> replaceSlot(st, seed, m, collisionIndex, replay)]
            ELSE [saved |-> FALSE, branch |-> "collision-discard",
                  store |-> saveRoomMeta(st, seed, m)]
       ELSE IF hasFreeSlot(m.active_phantoms)
       THEN [saved |-> TRUE, branch |-> "append",
             store |-> saveRoomMeta(saveReplay(st, seed, replay), seed,
                          [m EXCEPT !.active_phantoms = Append(@, newPhantomOf(replay))])]
       ELSE LET worstIndex == findWorstIndex(m.active_phantoms)
            IN IF beats(replay.finalScore, m.active_phantoms[worstIndex].score)
               THEN [saved |-> TRUE, branch |-> "evict",
                     store |-> replaceSlot(st, seed, m, worstIndex, replay)]
               ELSE [saved |-> FALSE, branch |-> "full-discard",
                     store |-> saveRoomMeta(st, seed, m)]

\* The v1 store's addReplayToRoom: four slots, no spawn index in PhantomInfo.
addReplayToRoomV1(st, seed, replay) ==
    LET m == countGame(getRoomMeta(st, seed), replay)
        newPhantom == [replayId |-> replay.id, score |-> replay.finalScore,
                       deathTick |-> replay.deathTick]
    IN IF Len(m.active_phantoms) < OLD_MAX_PHANTOMS
       THEN [saved |-> TRUE, branch |-> "append",
             store |-> saveRoomMeta(saveReplay(st, seed, replay), seed,
                          [m EXCEPT !.active_phantoms = Append(@, newPhantom)])]
       ELSE LET worstIndex == findWorstIndex(m.active_phantoms)
            IN IF replay.finalScore > m.active_phantoms[worstIndex].score
               THEN [saved |-> TRUE, branch |-> "evict",
                     store |-> saveRoomMeta(
                         saveReplay(deleteReplay(st, seed, m.active_phantoms[worstIndex].replayId),
                                    seed, replay),
                         seed, [m EXCEPT !.active_phantoms[worstIndex] = newPhantom])]
               ELSE [saved |-> FALSE, branch |-> "full-discard",
                     store |-> saveRoomMeta(st, seed, m)]

\* seq.splice(i, 1)
removeAt(seq, i) == SubSeq(seq, 1, i - 1) \o SubSeq(seq, i + 1, Len(seq))

\* the list cut to its first MAX_PHANTOMS entries, no blob deleted
evictWhileOverTruncating(st, seed, phantoms) ==
    [store |-> st, phantoms |-> SubSeq(phantoms, 1, Min2(Len(phantoms), MAX_PHANTOMS))]

\* the cleanup loop of assignSpawnIndex: [store, phantoms] once the list fits
RECURSIVE evictWhileOver(_, _, _)
evictWhileOver(st, seed, phantoms) ==
    IF Len(phantoms) > MAX_PHANTOMS
    THEN LET worstIndex == findWorstIndex(phantoms)
         IN evictWhileOver(deleteReplay(st, seed, phantoms[worstIndex].replayId), seed,
                           removeAt(phantoms, worstIndex))
    ELSE [store |-> st, phantoms |-> phantoms]

\* spawn indices of the phantoms that record one
occupiedIndices(phantoms) ==
    {Val(spawnIndexOf(phantoms[i])) :
        i \in {j \in 1..Len(phantoms) : IsSome(spawnIndexOf(phantoms[j]))}}

\* the first i in [0, MAX_SPAWN_POINTS) not occupied, or <<>> when there is none
firstFreeIndex(occupied) ==
    IF \E i \in 0..(MAX_SPAWN_POINTS - 1) : i \notin occupied
    THEN Some(CHOOSE i \in 0..(MAX_SPAWN_POINTS - 1) :
                 /\ i \notin occupied
                 /\ \A j \in 0..(i - 1) : j \in occupied)
    ELSE None

\* an assignment that books the index it hands out in the room's metadata
assignSpawnIndexReserving(st, seed) ==
    LET m == getRoomMeta(st, seed)
        free == firstFreeIndex(occupiedIndices(m.active_phantoms))
    IN IF IsSome(free)
       THEN [spawnIndex |-> Val(free), fallback |-> FALSE,
             store |-> saveRoomMeta(st, seed,
                          [m EXCEPT !.active_phantoms =
                              Append(@, [replayId |-> <<>>, score |-> 0,
                                         spawnIndex |-> Val(free)])])]
       ELSE [spawnIndex |-> 0, fallback |-> TRUE, store |-> st]

\* [spawnIndex, fallback, store]; fallback: the "no free spawn points" branch was taken
assignSpawnIndex(st, seed) ==
    LET m == getRoomMeta(st, seed)
        over == Len(m.active_phantoms) > MAX_PHANTOMS
        cleaned == evictWhileOver(st, seed, m.active_phantoms)
        m1 == IF over THEN [m EXCEPT !.active_phantoms = cleaned.phantoms] ELSE m
        st1 == IF over THEN saveRoomMeta(cleaned.store, seed, m1) ELSE st
        free == firstFreeIndex(occupiedIndices(m1.active_phantoms))
    IN IF IsSome(free)
       THEN [spawnIndex |-> Val(free), fallback |-> FALSE, store |-> st1]
       ELSE [spawnIndex |-> 0, fallback |-> TRUE, store |-> st1]

\* [...phantoms].sort((a, b) => b.score - a.score): stable, highest score first
RECURSIVE insertByScore(_, _)
insertByScore(sorted, p) ==
    IF Len(sorted) = 0 THEN <<p>>
    ELSE IF sorted[1].score >= p.score
         THEN <<sorted[1]>> \o insertByScore(Tail(sorted), p)
         ELSE <<p>> \o sorted

\* the list left in stored order
sortByScoreDescSkipped(phantoms) == phantoms

RECURSIVE sortByScoreDesc(_)
sortByScoreDesc(phantoms) ==
    IF Len(phantoms) = 0 THEN <<>>
    ELSE insertByScore(sortByScoreDesc(SubSeq(phantoms, 1, Len(phantoms) - 1)),
                       phantoms[Len(phantoms)])

RECURSIVE resolveReplays(_, _, _)
resolveReplays(st, seed, phantoms) ==
    IF Len(phantoms) = 0 THEN <<>>
    ELSE LET r == getReplay(st, seed, phantoms[1].replayId)
         IN (IF IsSome(r) THEN <<Val(r)>> ELSE <<>>)
            \o resolveReplays(st, seed, Tail(phantoms))

getActiveReplays(st, seed) ==
    LET all == getRoomMeta(st, seed).active_phantoms
        phantoms == IF Len(all) > MAX_PHANTOMS
                    THEN SubSeq(sortByScoreDesc(all), 1, MAX_PHANTOMS)
                    ELSE all
    IN resolveReplays(st, seed, phantoms)

----------------------------------------------------------------------------
(* RoomService *)

\* [data, fallback, store]
getRoomData(st, seed) ==
    LET seedStr == toString(seed)
        assigned == assignSpawnIndex(st, seedStr)
        phantoms == getActiveReplays(assigned.store, seedStr)
    IN [data |-> [seed |-> seed, phantoms |-> phantoms,
                  playerSpawnIndex |-> assigned.spawnIndex],
        fallback |-> assigned.fallback,
        store |-> assigned.store]

\* replay_${playerId.substring(0, 8)}_${Date.now()}
replayIdOf(playerId, time) == <<substring(playerId, ID_PREFIX_LEN), time>>

rejected(st, message) ==
    [threw |-> FALSE, result |-> [saved |-> FALSE, message |-> message],
     store |-> st, handed |-> None, branch |-> "malformed"]

completeReplayOf(playerId, replay, time) ==
    LET complete ==
            [id |-> replayIdOf(playerId, time),
             playerId |-> playerId,
             timestamp |-> time,
             startParams |-> [f \in DOMAIN replay.startParams |->
                                 IF f = "spawnIndex" THEN replay.startParams.spawnIndex.number
                                 ELSE replay.startParams[f]],
             finalScore |-> replay.finalScore.number,
             deathPosition |-> replay.deathPosition,
             trajectoryLog |-> replay.trajectoryLog.array]
    IN IF Has(replay, "elo")
       THEN [f \in DOMAIN complete \cup {"elo"} |->
                IF f = "elo" THEN replay.elo ELSE complete[f]]
       ELSE complete

\* !replay || !replay.trajectoryLog || !Array.isArray(replay.trajectoryLog)
invalidReplayData(payload) ==
    \/ ~Has(payload, "replay")
    \/ ~Has(payload.replay, "trajectoryLog")
    \/ ~Has(payload.replay.trajectoryLog, "array")

\* !replay.startParams || typeof replay.startParams.spawnIndex !== 'number'
invalidStartParams(replay) ==
    \/ ~Has(replay, "startParams")
    \/ ~Has(replay.startParams, "spawnIndex")
    \/ ~Has(replay.startParams.spawnIndex, "number")

\* the sign of the score not checked
invalidScoreUndefinedOnly(replay) == ~Has(replay, "finalScore")

\* replay.finalScore === undefined || replay.finalScore < 0
invalidScore(replay) ==
    \/ ~Has(replay, "finalScore")
    \/ replay.finalScore.number < 0

\* !replay.deathPosition
missingDeathPosition(replay) == ~Has(replay, "deathPosition")

\* [threw, result, store, handed, branch]; handed: the replay passed to
\* addReplayToRoom (<<>> when it is not called); no result when it throws
processGameOver(st, playerId, payload, time) ==
    IF ~Has(payload, "seed")
    THEN [threw |-> TRUE, store |-> st, handed |-> None, branch |-> "threw"]
    ELSE IF invalidReplayData(payload)
    THEN rejected(st, "Invalid replay data")
    ELSE IF invalidStartParams(payload.replay)
    THEN rejected(st, "Invalid start params")
    ELSE IF invalidScore(payload.replay)
    THEN rejected(st, "Invalid score")
    ELSE IF missingDeathPosition(payload.replay)
    THEN rejected(st, "Missing death position")
    ELSE LET completeReplay == completeReplayOf(playerId, payload.replay, time)
             added == addReplayToRoom(st, toString(payload.seed), completeReplay)
         IN [threw |-> FALSE,
             result |-> [saved |-> added.saved,
                         message |-> IF added.saved
                                     THEN "Replay saved! You are now a phantom in this room."
                                     ELSE "Your score was not high enough to become a phantom.",
                         replayId |-> completeReplay.id],
             store |-> added.store,
             handed |-> Some(completeReplay),
             branch |-> added.branch]

----------------------------------------------------------------------------
(* Client messages *)

without(obj, field) == [f \in DOMAIN obj \ {field} |-> obj[f]]

\* A run with no turn that dies one unit ahead of the default start: the
\* validator accepts it with a score of at most 10.
goodReplay(score, spawnIndex) ==
    [trajectoryLog |-> [array |-> <<>>],
     startParams |-> [spawnIndex |-> [number |-> spawnIndex]],
     finalScore |-> [number |-> score],
     deathPosition |-> Vec(0, 0, 1)]

goodPayload(seed, score, spawnIndex) ==
    [seed |-> seed, replay |-> goodReplay(score, spawnIndex)]

GoodPayloads ==
    {goodPayload(seed, score, k) : seed \in Seeds, score \in Scores, k \in SpawnIndices}

\* payloads the basic checks of processGameOver reject, one defect each
malformedReplays ==
    LET r == goodReplay(10, 0)
    IN {without(r, "trajectoryLog"),
        [r EXCEPT !.trajectoryLog = [string |-> "log"]],
        without(r, "startParams"),
        [r EXCEPT !.startParams = [spawnIndex |-> [string |-> "0"]]],
        [r EXCEPT !.startParams = [seed |-> 42]],
        without(r, "finalScore"),
        [r EXCEPT !.finalScore = [number |-> 0 - 1]],
        without(r, "deathPosition")}

MalformedPayloads ==
    {[seed |-> seed] : seed \in Seeds}
    \cup {[seed |-> seed, replay |-> r] : seed \in Seeds, r \in malformedReplays}

\* payloads without a seed
SeedlessPayloads == {[replay |-> goodReplay(10, 0)]}

\* <<player id, payload>> of the game:over messages clients send
Messages ==
    (Players \X GoodPayloads) \cup ({P1} \X (MalformedPayloads \cup SeedlessPayloads))

store == [meta |-> meta, replays |-> replays, dirs |-> dirs]

setStore(st) ==
    /\ meta' = st.meta
    /\ replays' = st.replays
    /\ dirs' = st.dirs

\* the catch block emitting nothing
gameOverEmitsNoCatch(out) ==
    IF out.threw THEN <<>> ELSE <<[event |-> "game:result", data |-> out.result]>>

\* what the socket.on('game:over') handler emits for an outcome of processGameOver
gameOverEmits(out) ==
    IF out.threw
    THEN <<[event |-> "game:result", data |-> [saved |-> FALSE, message |-> "Server error"]]>>
    ELSE <<[event |-> "game:result", data |-> out.result]>>

\* socket.on('game:over'): one message of player playerId handled to completion
gameOver(playerId, payload) ==
    LET out == processGameOver(store, playerId, payload, now)
    IN /\ setStore(out.store)
       /\ last' = [event |-> "game:over", branch |-> out.branch,
                   emitted |-> gameOverEmits(out)]
       /\ n' = n + 1
       /\ UNCHANGED <<now, version>>
       /\ UNCHANGED <<replayVars, callVars>>

\* socket.on('room:join'): seed is <<>> (null) or <<k>>; random is generateRandomSeed()
roomJoin(seed, random) ==
    LET roomSeed == IF IsSome(seed) THEN Val(seed) ELSE random
        out == getRoomData(store, roomSeed)
    IN /\ setStore(out.store)
       /\ last' = [event |-> "room:join",
                   branch |-> IF out.fallback THEN "fallback" ELSE "free",
                   emitted |-> <<[event |-> "room:data", data |-> out.data]>>]
       /\ n' = n + 1
       /\ UNCHANGED <<now, version>>
       /\ UNCHANGED <<replayVars, callVars>>

----------------------------------------------------------------------------
(* The server handling messages one after the other *)

Init ==
    /\ meta = [k \in SeedKeys |-> None]
    /\ replays = [k \in SeedKeys |-> {}]
    /\ dirs = {}
    /\ now = 1
    /\ version = "v2"
    /\ n = 0
    /\ last = [event |-> "none", branch |-> "none", emitted |-> <<>>]
    /\ subject = None /\ verdict = None /\ playerA = None /\ playerB = None
    /\ CallsIdle

Tick ==
    /\ now + 1 \in Times
    /\ now' = now + 1
    /\ UNCHANGED <<meta, replays, dirs, version, n, last>>
    /\ UNCHANGED <<replayVars, callVars>>

GameOverUpTo(maxOps, messages) ==
    /\ version = "v2"
    /\ n < maxOps
    /\ \E msg \in messages : gameOver(msg[1], msg[2])

RoomJoinUpTo(maxOps) ==
    /\ version = "v2"
    /\ n < maxOps
    /\ \E seed \in {None} \cup {Some(k) : k \in Seeds}, random \in Seeds :
          roomJoin(seed, random)

GameOver == GameOverUpTo(MaxOps, Messages)

RoomJoin == RoomJoinUpTo(MaxOps)

Next == Tick \/ GameOver \/ RoomJoin

Spec == Init /\ [][Next]_vars

----------------------------------------------------------------------------
(* Properties.  A property of an operation is stated for every message a    *)
(* client can send next in a reachable state: outcome(msg) is what handling *)
(* msg now produces.                                                        *)

activePhantoms(k) == getRoomMeta(store, k).active_phantoms

GoodMessages == Players \X GoodPayloads

outcome(msg) == processGameOver(store, msg[1], msg[2], now)

keyOf(msg) == toString(msg[2].seed)
scoreOf(msg) == msg[2].replay.finalScore.number
spawnOf(msg) == msg[2].replay.startParams.spawnIndex.number

\* the room's metadata in the store an outcome leaves
metaAfter(out, msg) == getRoomMeta(out.store, keyOf(msg))

lowestScore(phantoms) ==
    CHOOSE v \in {phantoms[i].score : i \in 1..Len(phantoms)} :
        \A i \in 1..Len(phantoms) : v <= phantoms[i].score

\* indices of the active phantoms at a spawn index
slotsAt(phantoms, spawnIndex) ==
    {i \in 1..Len(phantoms) : spawnIndexOf(phantoms[i]) = Some(spawnIndex)}

\* msg's run is stored at slot i and every other slot is as it was
replacedOnly(before, out, msg, i) ==
    LET after == metaAfter(out, msg).active_phantoms
    IN /\ Len(after) = Len(before)
       /\ after[i].replayId = out.result.replayId
       /\ after[i].score = scoreOf(msg)
       /\ after[i].spawnIndex = spawnOf(msg)
       /\ \A j \in 1..Len(before) : j # i => after[j] = before[j]

\* C1: after any sequence of submissions into a room that started empty, the
\* persisted active_phantoms has at most MAX_PHANTOMS entries.
C1_Capacity == \A k \in SeedKeys : Len(activePhantoms(k)) <= MAX_PHANTOMS

C1_Witness ==
    /\ last.branch = "evict"
    /\ \E k \in SeedKeys : Len(activePhantoms(k)) = MAX_PHANTOMS

\* C2: no two entries of a room's persisted active_phantoms have the same
\* spawnIndex.
C2_SpawnUnique ==
    \A k \in SeedKeys :
        \A i, j \in 1..Len(activePhantoms(k)) :
            i # j => activePhantoms(k)[i].spawnIndex # activePhantoms(k)[j].spawnIndex

C2_Witness ==
    /\ last.branch = "collision-replace"
    /\ \E k \in SeedKeys : Len(activePhantoms(k)) = MAX_PHANTOMS

\* C3 as claimed: in a full room a submission scoring as much as the weakest
\* phantom is not admitted, and one scoring a point more is admitted and evicts
\* the weakest phantom, whatever spawnIndex it carries.
C3_AnySpawnIndex ==
    \A msg \in GoodMessages :
        LET phantoms == activePhantoms(keyOf(msg))
            out == outcome(msg)
        IN Len(phantoms) = MAX_PHANTOMS =>
              /\ scoreOf(msg) = lowestScore(phantoms) => ~out.result.saved
              /\ scoreOf(msg) = lowestScore(phantoms) + 1 =>
                    /\ out.result.saved
                    /\ \E i \in 1..Len(phantoms) :
                          /\ phantoms[i].score = lowestScore(phantoms)
                          /\ replacedOnly(phantoms, out, msg, i)

\* C3 as amended: in a full room a submission scoring as much as the weakest
\* phantom is not admitted, whatever spawnIndex it carries; one scoring a
\* point more whose spawnIndex no active phantom holds is admitted and
\* replaces the first phantom of lowest score.
C3_StrictImprovement ==
    \A msg \in GoodMessages :
        LET phantoms == activePhantoms(keyOf(msg))
            out == outcome(msg)
        IN Len(phantoms) = MAX_PHANTOMS =>
              /\ scoreOf(msg) = lowestScore(phantoms) => ~out.result.saved
              /\ (/\ scoreOf(msg) = lowestScore(phantoms) + 1
                  /\ slotsAt(phantoms, spawnOf(msg)) = {}) =>
                    /\ out.result.saved
                    /\ \E i \in 1..Len(phantoms) :
                          /\ phantoms[i].score = lowestScore(phantoms)
                          /\ \A j \in 1..(i - 1) : phantoms[j].score > phantoms[i].score
                          /\ replacedOnly(phantoms, out, msg, i)

C3_Witness ==
    /\ last.branch = "evict"
    /\ last.emitted[1].data.saved
    /\ \E k \in SeedKeys :
          \E i \in 1..Len(activePhantoms(k)) :
              /\ activePhantoms(k)[i].replayId = last.emitted[1].data.replayId
              /\ \E j \in 1..Len(activePhantoms(k)) :
                    activePhantoms(k)[j].score < activePhantoms(k)[i].score

\* C4: a submission at the spawnIndex of an active phantom is decided against
\* that phantom alone: a strictly higher score replaces it in place, an equal
\* or lower score is discarded and stored nowhere, full room or not.
C4_CollisionPrecedence ==
    \A msg \in GoodMessages :
        LET phantoms == activePhantoms(keyOf(msg))
            out == outcome(msg)
        IN \A i \in slotsAt(phantoms, spawnOf(msg)) :
              IF scoreOf(msg) > phantoms[i].score
              THEN out.result.saved /\ replacedOnly(phantoms, out, msg, i)
              ELSE /\ ~out.result.saved
                   /\ metaAfter(out, msg).active_phantoms = phantoms
                   /\ out.store.replays = replays

C4_Witness ==
    /\ last.branch = "collision-discard"
    /\ ~last.emitted[1].data.saved

\* an outcome of a submission that reached addReplayToRoom and was not admitted
notAdmitted(out) == IsSome(out.handed) /\ ~out.result.saved

\* C5 as claimed: a submission that is not admitted changes nothing in the
\* persisted room but total_games_played.
C5_OnlyGamesPlayed ==
    \A msg \in GoodMessages :
        LET before == getRoomMeta(store, keyOf(msg))
            out == outcome(msg)
            after == metaAfter(out, msg)
        IN notAdmitted(out) =>
              /\ after.active_phantoms = before.active_phantoms
              /\ after.players_history = before.players_history
              /\ out.store.replays = replays

\* C5 as amended: a submission that is not admitted leaves active_phantoms and
\* the stored blobs as they were, adds one to total_games_played and appends
\* the player's id to players_history when it is not there yet.
C5_GamesPlayedAndHistory ==
    \A msg \in GoodMessages :
        LET before == getRoomMeta(store, keyOf(msg))
            out == outcome(msg)
            after == metaAfter(out, msg)
        IN notAdmitted(out) =>
              /\ after.active_phantoms = before.active_phantoms
              /\ out.store.replays = replays
              /\ after.total_games_played = before.total_games_played + 1
              /\ after.players_history =
                    IF includes(before.players_history, msg[1])
                    THEN before.players_history
                    ELSE Append(before.players_history, msg[1])
              /\ after.seed = before.seed

C5_Witness ==
    /\ last.branch = "full-discard"
    /\ \E k \in SeedKeys :
          getRoomMeta(store, k).total_games_played > Len(activePhantoms(k))

\* C6: every replay processGameOver hands to addReplayToRoom passes
\* RoomValidator.validate.
C6_ValidatedBeforeAdmission ==
    \A msg \in Messages :
        IsSome(outcome(msg).handed) => validate(Val(outcome(msg).handed)).isValid

DescriptiveMessages ==
    {"Invalid replay data", "Invalid start params", "Invalid score", "Missing death position"}

\* C7: a payload with a seed whose replay, trajectoryLog, startParams,
\* spawnIndex, finalScore or deathPosition is missing or of the wrong kind is
\* answered saved = false with a descriptive message, without a throw, and
\* leaves the store as it was.
C7_MalformedRejected ==
    \A playerId \in Players, payload \in MalformedPayloads :
        LET out == processGameOver(store, playerId, payload, now)
        IN /\ ~out.threw
           /\ ~out.result.saved
           /\ out.result.message \in DescriptiveMessages
           /\ out.store = store

C7_Witness ==
    /\ last.branch = "malformed"
    /\ last.emitted[1].data.message \in DescriptiveMessages

\* C9: the stored replay blobs of a room are exactly those its active phantoms
\* refer to.
C9_BlobsMatchPhantoms ==
    \A k \in SeedKeys :
        {b.id : b \in replays[k]}
            = {activePhantoms(k)[i].replayId : i \in 1..Len(activePhantoms(k))}

\* C10: every game:over message is answered with exactly one game:result
\* carrying a boolean saved and a message, also when processGameOver throws.
C10_OneResult ==
    last.event = "game:over" =>
        /\ Len(last.emitted) = 1
        /\ last.emitted[1].event = "game:result"
        /\ last.emitted[1].data.saved \in BOOLEAN
        /\ Has(last.emitted[1].data, "message")

C10_Witness ==
    /\ last.branch = "threw"
    /\ last.emitted = <<[event |-> "game:result",
                         data |-> [saved |-> FALSE, message |-> "Server error"]]>>

----------------------------------------------------------------------------
(* A data directory written by the v1 store (four slots, PhantomInfo       *)
(* without spawnIndex or playerId) and then served by the current code.    *)

LegacySpawnIndices == {0, 1}

\* a v1 ReplayData: tick-indexed input log
legacyReplayOf(playerId, seed, score, spawnIndex, time) ==
    [id |-> replayIdOf(playerId, time),
     playerId |-> playerId,
     timestamp |-> time,
     startParams |-> [seed |-> seed, spawnIndex |-> spawnIndex],
     finalScore |-> score,
     deathTick |-> score,
     inputLog |-> <<>>]

gameOverV1(playerId, seed, score, spawnIndex) ==
    LET out == addReplayToRoomV1(store, toString(seed),
                                 legacyReplayOf(playerId, seed, score, spawnIndex, now))
    IN /\ setStore(out.store)
       /\ last' = [event |-> "game:over", branch |-> out.branch,
                   emitted |-> <<[event |-> "game:result",
                                  data |-> [saved |-> out.saved]]>>]
       /\ UNCHANGED <<now, version, n>>
       /\ UNCHANGED <<replayVars, callVars>>

InitLegacy ==
    /\ meta = [k \in SeedKeys |-> None]
    /\ replays = [k \in SeedKeys |-> {}]
    /\ dirs = {}
    /\ now = 1
    /\ version = "v1"
    /\ n = 0
    /\ last = [event |-> "none", branch |-> "none", emitted |-> <<>>]
    /\ subject = None /\ verdict = None /\ playerA = None /\ playerB = None
    /\ CallsIdle

GameOverV1 ==
    /\ version = "v1"
    /\ \E playerId \in Players, seed \in Seeds, score \in Scores, k \in LegacySpawnIndices :
          /\ getRoomMeta(store, toString(seed)).total_games_played < MaxLegacyGames
          /\ gameOverV1(playerId, seed, score, k)

Deploy ==
    /\ version = "v1"
    /\ version' = "v2"
    /\ UNCHANGED <<meta, replays, dirs, now, n, last>>
    /\ UNCHANGED <<replayVars, callVars>>

LegacyMessages == Players \X {goodPayload(seed, 11, k) : seed \in Seeds, k \in {0, 3}}

GameOverOnLegacy == GameOverUpTo(MaxLegacyOps, LegacyMessages)

RoomJoinOnLegacy == RoomJoinUpTo(MaxLegacyOps)

NextLegacy == Tick \/ GameOverV1 \/ Deploy \/ GameOverOnLegacy \/ RoomJoinOnLegacy

SpecLegacy == InitLegacy /\ [][NextLegacy]_vars

----------------------------------------------------------------------------
(* Properties of joining a room *)

\* C8: for every stored room, the index getRoomData assigns is the smallest one
\* in [0, MAX_SPAWN_POINTS) that no active phantom left by the cleanup records,
\* it differs from startParams.spawnIndex of every phantom returned with it,
\* and the "no free spawn points" fallback is not taken.
C8_FreeSpawnAssigned ==
    version = "v2" =>
        \A seed \in Seeds :
            LET out == getRoomData(store, seed)
                kept == getRoomMeta(out.store, toString(seed)).active_phantoms
                assigned == out.data.playerSpawnIndex
            IN /\ ~out.fallback
               /\ assigned \in 0..(MAX_SPAWN_POINTS - 1)
               /\ slotsAt(kept, assigned) = {}
               /\ \A j \in 0..(assigned - 1) : slotsAt(kept, j) # {}
               /\ \A i \in 1..Len(out.data.phantoms) :
                     out.data.phantoms[i].startParams.spawnIndex # assigned

----------------------------------------------------------------------------
(* Storage failures.  failing is the set of kinds of file operation that    *)
(* reject while a handler runs: "read" (fs.readFile), "write" (fs.mkdir,    *)
(* fs.writeFile), "unlink" (fs.unlink), "readdir" (fs.readdir).  An         *)
(* operation that can reject returns [threw, store] or [threw, value].      *)

FailureKinds == {"read", "write", "unlink", "readdir"}

\* getRoomMeta: the catch block answers every rejection of readFile
getRoomMetaIO(st, seed, failing) ==
    [threw |-> FALSE,
     value |-> IF "read" \in failing THEN freshMeta(seed) ELSE getRoomMeta(st, seed)]

\* saveRoomMeta: no try block around ensureRoomDir and writeFile
saveRoomMetaIO(st, seed, m, failing) ==
    IF "write" \in failing
    THEN [threw |-> TRUE, store |-> st]
    ELSE [threw |-> FALSE, store |-> saveRoomMeta(st, seed, m)]

\* getReplay: the catch block answers every rejection of readFile with null
getReplayIO(st, seed, replayId, failing) ==
    [threw |-> FALSE,
     value |-> IF "read" \in failing THEN None ELSE getReplay(st, seed, replayId)]

\* deleteReplay: the catch block swallows every rejection of unlink
deleteReplayIO(st, seed, replayId, failing) ==
    [threw |-> FALSE,
     store |-> IF "unlink" \in failing THEN st ELSE deleteReplay(st, seed, replayId)]

\* getAllRoomSeeds: the catch block answers every rejection with []
getAllRoomSeedsIO(st, failing) ==
    [threw |-> FALSE,
     value |-> IF {"write", "readdir"} \cap failing # {} THEN {} ELSE st.dirs]

RECURSIVE evictWhileOverIO(_, _, _, _)
evictWhileOverIO(st, seed, phantoms, failing) ==
    IF Len(phantoms) > MAX_PHANTOMS
    THEN LET worstIndex == findWorstIndex(phantoms)
         IN evictWhileOverIO(
                deleteReplayIO(st, seed, phantoms[worstIndex].replayId, failing).store,
                seed, removeAt(phantoms, worstIndex), failing)
    ELSE [store |-> st, phantoms |-> phantoms]

\* [threw, spawnIndex, fallback, store]
assignSpawnIndexIO(st, seed, failing) ==
    LET m == getRoomMetaIO(st, seed, failing).value
        over == Len(m.active_phantoms) > MAX_PHANTOMS
        cleaned == evictWhileOverIO(st, seed, m.active_phantoms, failing)
        m1 == IF over THEN [m EXCEPT !.active_phantoms = cleaned.phantoms] ELSE m
        saved == IF over THEN saveRoomMetaIO(cleaned.store, seed, m1, failing)
                 ELSE [threw |-> FALSE, store |-> st]
        free == firstFreeIndex(occupiedIndices(m1.active_phantoms))
    IN IF saved.threw
       THEN [threw |-> TRUE, store |-> saved.store]
       ELSE IF IsSome(free)
       THEN [threw |-> FALSE, spawnIndex |-> Val(free), fallback |-> FALSE,
             store |-> saved.store]
       ELSE [threw |-> FALSE, spawnIndex |-> 0, fallback |-> TRUE, store |-> saved.store]

RECURSIVE resolveReplaysIO(_, _, _, _)
resolveReplaysIO(st, seed, phantoms, failing) ==
    IF Len(phantoms) = 0 THEN <<>>
    ELSE LET r == getReplayIO(st, seed, phantoms[1].replayId, failing).value
         IN (IF IsSome(r) THEN <<Val(r)>> ELSE <<>>)
            \o resolveReplaysIO(st, seed, Tail(phantoms), failing)

getActiveReplaysIO(st, seed, failing) ==
    LET all == getRoomMetaIO(st, seed, failing).value.active_phantoms
        phantoms == IF Len(all) > MAX_PHANTOMS
                    THEN SubSeq(sortByScoreDesc(all), 1, MAX_PHANTOMS)
                    ELSE all
    IN resolveReplaysIO(st, seed, phantoms, failing)

\* [threw, data, store]; data is absent when the call threw
getRoomDataIO(st, seed, failing) ==
    LET seedStr == toString(seed)
        assigned == assignSpawnIndexIO(st, seedStr, failing)
    IN IF assigned.threw
       THEN [threw |-> TRUE, store |-> assigned.store]
       ELSE [threw |-> FALSE,
             data |-> [seed |-> seed,
                       phantoms |-> getActiveReplaysIO(assigned.store, seedStr, failing),
                       playerSpawnIndex |-> assigned.spawnIndex],
             store |-> assigned.store]

\* what the socket.on('room:join') handler emits for an outcome of getRoomData
roomJoinEmits(out) ==
    IF out.threw
    THEN <<[event |-> "room:error", data |-> [message |-> "Failed to join room"]]>>
    ELSE <<[event |-> "room:data", data |-> out.data]>>

roomJoinIO(seed, random, failing) ==
    LET roomSeed == IF IsSome(seed) THEN Val(seed) ELSE random
        out == getRoomDataIO(store, roomSeed, failing)
    IN /\ setStore(out.store)
       /\ last' = [event |-> "room:join",
                   branch |-> IF out.threw THEN "threw" ELSE "answered",
                   emitted |-> roomJoinEmits(out)]
       /\ n' = n + 1
       /\ UNCHANGED <<now, version>>
       /\ UNCHANGED <<replayVars, callVars>>

RoomJoinOnFailingDisk ==
    /\ version = "v2"
    /\ n < MaxLegacyOps
    /\ \E seed \in {None} \cup {Some(k) : k \in Seeds}, random \in Seeds,
          failing \in SUBSET {"read", "write", "unlink"} :
          roomJoinIO(seed, random, failing)

NextFailing == Tick \/ GameOverV1 \/ Deploy \/ GameOverOnLegacy \/ RoomJoinOnFailingDisk

\* the current server, on a disk that can fail, started on data of the v1 store
SpecFailing == InitLegacy /\ [][NextFailing]_vars

\* C11: every room:join is answered with room:data and never with a failure
\* reply, also when a storage operation fails during the join.
C11_JoinAlwaysAnswered ==
    last.event = "room:join" =>
        /\ Len(last.emitted) = 1
        /\ last.emitted[1].event = "room:data"

\* the ids processGameOver can give a replay
ReplayIds == {replayIdOf(playerId, time) : playerId \in Players \cup {P2}, time \in Times}

\* C12: for a seed with no stored metadata getRoomMeta returns a record with
\* total_games_played = 0, no active phantoms and an empty players_history and
\* does not throw; getReplay returns null for an id with no stored blob.
C12_MissingRecords ==
    \A k \in SeedKeys :
        /\ ~IsSome(meta[k]) =>
              /\ getRoomMeta(store, k) =
                    [seed |-> k, total_games_played |-> 0, active_phantoms |-> <<>>,
                     players_history |-> <<>>]
              /\ \A failing \in SUBSET FailureKinds :
                    /\ ~getRoomMetaIO(store, k, failing).threw
                    /\ getRoomMetaIO(store, k, failing).value.total_games_played = 0
        /\ \A id \in ReplayIds :
              (\A b \in replays[k] : b.id # id) =>
                  /\ getReplay(store, k, id) = None
                  /\ \A failing \in SUBSET FailureKinds :
                        getReplayIO(store, k, id, failing) = [threw |-> FALSE, value |-> None]

\* a join of a room that has no metadata was answered with an empty room
C12_Witness ==
    /\ last.event = "room:join"
    /\ last.emitted[1].event = "room:data"
    /\ last.emitted[1].data.phantoms = <<>>
    /\ \E k \in SeedKeys : ~IsSome(meta[k]) /\ replays[k] = {}

\* C13: a storage failure in a Room Store operation is propagated to the
\* caller as an error of that operation; a failed read of an existing room is
\* not treated as an empty room.
C13_FailuresPropagate ==
    \A k \in SeedKeys :
        /\ IsSome(meta[k]) => getRoomMetaIO(store, k, {"read"}).threw
        /\ \A b \in replays[k] :
              /\ getReplayIO(store, k, b.id, {"read"}).threw
              /\ deleteReplayIO(store, k, b.id, {"unlink"}).threw
        /\ k \in dirs => getAllRoomSeedsIO(store, {"readdir"}).threw
        /\ saveRoomMetaIO(store, k, getRoomMeta(store, k), {"write"}).threw

\* the sets of MAX_PHANTOMS positions of a list no position outside of which
\* has a higher score than one inside
topScoring(phantoms) ==
    {chosen \in SUBSET (1..Len(phantoms)) :
        /\ Cardinality(chosen) = MAX_PHANTOMS
        /\ \A i \in chosen, j \in (1..Len(phantoms)) \ chosen :
              phantoms[i].score >= phantoms[j].score}

C15_DistinctReplayIds ==
    \A k \in SeedKeys :
        \A i, j \in 1..Len(activePhantoms(k)) :
            i # j => activePhantoms(k)[i].replayId # activePhantoms(k)[j].replayId

----------------------------------------------------------------------------
(* RoomValidator.validate applied to replays of up to MaxTurns changes      *)

MaxTurns == 2

\* grid points: on the z axis ahead of and behind the default start, and
\* beside it
ValidatorPoints ==
    {Vec(0, 0, 0), Vec(0, 0, 10), Vec(0, 0, 20), Vec(1, 0, 10), Vec(5, 0, 10), Vec(0, 0, 0 - 5)}

ValidatorDirections == {Vec(0, 0, 1), Vec(1, 0, 0), Vec(0, 0, 0 - 1)}

ValidatorScores == {0, 10, 11, 15, 200, 201, 5000}

TrajectoryChanges ==
    {[position |-> p, direction |-> d] : p \in ValidatorPoints, d \in ValidatorDirections}

TrajectoryLogs ==
    UNION {[1..len -> TrajectoryChanges] : len \in 0..MaxTurns}

\* a ReplayData as processGameOver completes it, as far as validate reads it
validatorReplay(score, log, death) ==
    [startParams |-> [spawnIndex |-> 0],
     finalScore |-> score,
     trajectoryLog |-> log,
     deathPosition |-> death]

\* straight runs of 101 units along the start direction, with one recorded
\* change or with five, and scores at the high-score threshold
LongRuns ==
    {validatorReplay(score, log, Vec(0, 0, 101)) :
        score \in {1000, 1001},
        log \in { <<[position |-> Origin, direction |-> AxisZ]>>,
                  [i \in 1..5 |-> [position |-> Vec(0, 0, 20 * (i - 1)), direction |-> AxisZ]] }}

ValidatorReplays ==
    {validatorReplay(score, log, death) :
        score \in ValidatorScores, log \in TrajectoryLogs, death \in ValidatorPoints}
    \cup LongRuns

ServerIdle ==
    /\ meta = [k \in SeedKeys |-> None]
    /\ replays = [k \in SeedKeys |-> {}]
    /\ dirs = {}
    /\ now = 1
    /\ version = "v2"
    /\ n = 0
    /\ last = [event |-> "none", branch |-> "none", emitted |-> <<>>]
    /\ CallsIdle

InitValidator ==
    /\ ServerIdle
    /\ subject \in {Some(r) : r \in ValidatorReplays}
    /\ verdict = None
    /\ playerA = None
    /\ playerB = None

Validate ==
    /\ verdict = None
    /\ verdict' = Some(validate(Val(subject)))
    /\ UNCHANGED <<subject, playerA, playerB>>
    /\ UNCHANGED <<serverVars, callVars>>

NextValidator == Validate

SpecValidator == InitValidator /\ [][NextValidator]_vars

\* start position -> each change position -> deathPosition
pathPoints(replay) ==
    <<startPositionOf(replay)>>
    \o [i \in 1..Len(replay.trajectoryLog) |-> replay.trajectoryLog[i].position]
    \o <<replay.deathPosition>>

RECURSIVE legSum(_)
legSum(points) ==
    IF Len(points) < 2 THEN 0
    ELSE getDistance(points[1], points[2]) + legSum(Tail(points))

\* finalScore > max(10, 10 x totalDistance), distances in thousandths
scoreExceedsDistance(replay) ==
    replay.finalScore * Thousand > Max2(10 * Thousand, 10 * legSum(pathPoints(replay)))

TooHigh == "Score too high for distance"

rejectedFor(result, reason) == ~result.isValid /\ result.reason = reason

\* a 20-unit run along the start direction, its log holding the start heading
straightRun(score) ==
    validatorReplay(score, <<[position |-> Origin, direction |-> AxisZ]>>, Vec(0, 0, 20))

\* C16 as claimed: validate fails with 'score too high for distance' whenever
\* finalScore > max(10, 10 x totalDistance) and never on that ground
\* otherwise; the straight 20-unit run passes with score 15 and fails with
\* that reason with score 5000.
C16_TooHighWhenever ==
    IsSome(verdict) =>
        LET replay == Val(subject)
        IN /\ rejectedFor(Val(verdict), TooHigh) <=> scoreExceedsDistance(replay)
           /\ replay = straightRun(15) => Val(verdict).isValid
           /\ replay = straightRun(5000) => rejectedFor(Val(verdict), TooHigh)

\* C16 as amended: a replay with finalScore > max(10, 10 x totalDistance)
\* fails with 'Score without trajectory' when its trajectoryLog is empty and
\* with 'score too high for distance' when it is not; no other replay is
\* rejected on the latter ground; the straight 20-unit run whose log is not
\* empty passes with score 15 and fails with that reason with score 5000.
C16_TooHighAfterEmptyLogCheck ==
    IsSome(verdict) =>
        LET replay == Val(subject)
        IN /\ scoreExceedsDistance(replay) =>
                 rejectedFor(Val(verdict),
                             IF Len(replay.trajectoryLog) = 0
                             THEN "Score without trajectory" ELSE TooHigh)
           /\ rejectedFor(Val(verdict), TooHigh) => scoreExceedsDistance(replay)
           /\ replay = straightRun(15) => Val(verdict).isValid
           /\ replay = straightRun(5000) => rejectedFor(Val(verdict), TooHigh)

C16_Witness ==
    /\ subject = Some(straightRun(5000))
    /\ verdict = Some(Invalid(TooHigh))

\* the farthest a grid point of the model lies from another along an axis
MaxReach == 101

\* target = origin + t * direction for a whole t >= 0; on the grid, with unit
\* directions, the tolerance of 0.1 admits no other point
onRay(origin, direction, target) ==
    \E t \in 0..MaxReach :
        /\ target.x = origin.x + t * direction.x
        /\ target.y = origin.y + t * direction.y
        /\ target.z = origin.z + t * direction.z

\* the heading in force on leg i of the path: the start direction, then the
\* direction of change i - 1
headingOn(replay, i) ==
    IF i = 1 THEN startDirectionOf(replay) ELSE replay.trajectoryLog[i - 1].direction

\* every change position and deathPosition lies on the ray from the point before
allOnRay(replay) ==
    LET points == pathPoints(replay)
    IN \A i \in 1..(Len(points) - 1) :
          onRay(points[i], headingOn(replay, i), points[i + 1])

NotContinuous == "Trajectory is not continuous"

\* one of the checks validate makes before the continuity check rejects
scoreCheckRejects(replay) ==
    \/ replay.finalScore > 10 /\ Len(replay.trajectoryLog) = 0
    \/ scoreExceedsDistance(replay)
    \/ replay.finalScore > 1000 /\ Len(replay.trajectoryLog) < 5

\* C17 as claimed: validate accepts only replays whose change positions and
\* deathPosition each lie on the ray from the previous point along the heading
\* in force, and a replay with a point off its ray or behind the ray's origin
\* fails with a continuity reason.
C17_OffRayFailsContinuity ==
    IsSome(verdict) =>
        LET replay == Val(subject)
        IN /\ Val(verdict).isValid => allOnRay(replay)
           /\ ~allOnRay(replay) => rejectedFor(Val(verdict), NotContinuous)

\* C17 as amended: validate accepts only replays whose points each lie on the
\* ray from the previous point; a replay with a point off its ray or behind
\* the origin fails, with a continuity reason unless one of the score checks
\* made before rejects it; no replay whose points all lie on their rays fails
\* with a continuity reason.
C17_OffRayFails ==
    IsSome(verdict) =>
        LET replay == Val(subject)
        IN /\ Val(verdict).isValid => allOnRay(replay)
           /\ ~allOnRay(replay) =>
                 /\ ~Val(verdict).isValid
                 /\ rejectedFor(Val(verdict), NotContinuous) <=> ~scoreCheckRejects(replay)
           /\ rejectedFor(Val(verdict), NotContinuous) => ~allOnRay(replay)

\* rejected for a side-step off the ray, and for a point behind the start
C17_Witness ==
    /\ verdict = Some(Invalid(NotContinuous))
    /\ \/ subject = Some(validatorReplay(10, <<[position |-> Vec(1, 0, 10),
                                                direction |-> AxisZ]>>, Vec(1, 0, 10)))
       \/ subject = Some(validatorReplay(10, <<[position |-> Vec(0, 0, 0 - 5),
                                                direction |-> AxisZ]>>, Vec(0, 0, 0 - 5)))

----------------------------------------------------------------------------
(* Replay playback on the client: ReplayPlayer and the Phantom it drives.   *)
(* A quaternion built from quarter turns is kept as the frame it gives to   *)
(* the local axes: right = q(1,0,0), up = q(0,1,0), forward = q(0,0,-1).    *)
(* Time is kept in milliseconds, moveInterval rounded down to one.          *)

WORLD_SIZE == 50
OFFSET == 5
DEFAULT_SPM == 300
MIN_SPM == 60
MsPerMinute == 60 * Thousand

\* bounds of the playback model
MaxTicks == 3
MaxGrowth == 1
MaxSPM == 350

vecAdd(a, b) == Vec(a.x + b.x, a.y + b.y, a.z + b.z)
vecNeg(a) == Vec(0 - a.x, 0 - a.y, 0 - a.z)
vecDot(a, b) == a.x * b.x + a.y * b.y + a.z * b.z

Frame(right, up, forward) == [right |-> right, up |-> up, forward |-> forward]

\* new THREE.Quaternion(), and setFromAxisAngle((0,1,0), PI), (.., PI / 2), (.., -PI / 2)
SPAWN_POINTS ==
    << [position |-> Vec(OFFSET, OFFSET, OFFSET),
        direction |-> Frame(Vec(1, 0, 0), Vec(0, 1, 0), Vec(0, 0, 0 - 1))],
       [position |-> Vec(WORLD_SIZE - OFFSET, OFFSET, OFFSET),
        direction |-> Frame(Vec(0 - 1, 0, 0), Vec(0, 1, 0), Vec(0, 0, 1))],
       [position |-> Vec(OFFSET, OFFSET, WORLD_SIZE - OFFSET),
        direction |-> Frame(Vec(0, 0, 0 - 1), Vec(0, 1, 0), Vec(0 - 1, 0, 0))],
       [position |-> Vec(WORLD_SIZE - OFFSET, OFFSET, WORLD_SIZE - OFFSET),
        direction |-> Frame(Vec(0, 0, 1), Vec(0, 1, 0), Vec(1, 0, 0))] >>

\* SPAWN_POINTS[Math.abs(index) % SPAWN_POINTS.length]
getSpawnPoint(index) == SPAWN_POINTS[(Abs(index) % Len(SPAWN_POINTS)) + 1]

InputDirections == {"TURN_LEFT", "TURN_RIGHT", "ROLL_LEFT", "ROLL_RIGHT"}

\* a property the replay data does not have stays undefined on the player
copyField(obj, from, field, as) ==
    IF Has(from, field) THEN [f \in DOMAIN obj \cup {as} |-> IF f = as THEN from[field] ELSE obj[f]]
    ELSE obj

newReplayPlayer(replayData) ==
    copyField(
        copyField(
            [currentIndex |-> 0, currentTick |-> 0, isDead |-> FALSE,
             startParams |-> replayData.startParams, replayId |-> replayData.id],
            replayData, "inputLog", "inputLog"),
        replayData, "deathTick", "deathTick")

\* ReplayPlayer.tick(): the player after the call, what it returned ("null" or
\* a direction) and whether it threw on the way (reading .length of undefined)
tick(rp) ==
    IF rp.isDead THEN [player |-> rp, action |-> "null", threw |-> FALSE]
    ELSE LET ticked == [rp EXCEPT !.currentTick = @ + 1]
         IN IF Has(ticked, "deathTick") /\ ticked.currentTick >= ticked.deathTick
            THEN [player |-> [ticked EXCEPT !.isDead = TRUE], action |-> "null", threw |-> FALSE]
            ELSE IF ~Has(ticked, "inputLog")
            THEN [player |-> ticked, action |-> "null", threw |-> TRUE]
            ELSE IF /\ ticked.currentIndex < Len(ticked.inputLog)
                    /\ ticked.inputLog[ticked.currentIndex + 1][1] = ticked.currentTick
            THEN [player |-> [ticked EXCEPT !.currentIndex = @ + 1],
                  action |-> ticked.inputLog[ticked.currentIndex + 1][2], threw |-> FALSE]
            ELSE [player |-> ticked, action |-> "null", threw |-> FALSE]

isDeadNow(rp) == rp.isDead

playerResetKeepsDeath(rp) == [rp EXCEPT !.currentIndex = 0, !.currentTick = 0]

playerReset(rp) == [rp EXCEPT !.currentIndex = 0, !.currentTick = 0, !.isDead = FALSE]

\* direction * (quarter turn about the local Y axis), refused when the new
\* forward is the reverse of the last step
rotate(ph, angle) ==
    LET d == ph.direction
        nextQuat == IF angle > 0 THEN Frame(d.forward, d.up, vecNeg(d.right))
                    ELSE Frame(vecNeg(d.forward), d.up, d.right)
    IN IF vecDot(nextQuat.forward, ph.lastStepVector) < 0 THEN ph
       ELSE [ph EXCEPT !.direction = nextQuat]

\* direction * (quarter turn about the local (0,0,-1) axis)
roll(ph, angle) ==
    LET d == ph.direction
    IN [ph EXCEPT !.direction = IF angle < 0 THEN Frame(d.up, vecNeg(d.right), d.forward)
                                ELSE Frame(vecNeg(d.up), d.right, d.forward)]

applyAction(ph, action) ==
    CASE action = "TURN_LEFT" -> rotate(ph, 1)
      [] action = "TURN_RIGHT" -> rotate(ph, 0 - 1)
      [] action = "ROLL_LEFT" -> roll(ph, 0 - 1)
      [] action = "ROLL_RIGHT" -> roll(ph, 1)
      [] OTHER -> ph

stepHeldWhileGrowing(ph) ==
    LET forward == ph.direction.forward
        newHead == vecAdd(ph.segments[1], forward)
    IN IF ph.growthPending > 0
       THEN [ph EXCEPT !.lastStepVector = forward, !.growthPending = @ - 1]
       ELSE [ph EXCEPT !.lastStepVector = forward,
                       !.segments = <<newHead>> \o SubSeq(@, 1, Len(@) - 1)]

\* one grid unit along the (axis-aligned) forward vector; the tail follows
\* unless growth is pending
step(ph) ==
    LET forward == ph.direction.forward
        newHead == vecAdd(ph.segments[1], forward)
    IN IF ph.growthPending > 0
       THEN [ph EXCEPT !.lastStepVector = forward, !.growthPending = @ - 1,
                       !.segments = <<newHead>> \o @]
       ELSE [ph EXCEPT !.lastStepVector = forward,
                       !.segments = <<newHead>> \o SubSeq(@, 1, Len(@) - 1)]

\* Phantom.reset(); action, threw and killed are the model's record of what
\* the last tick() returned, whether update() threw and whether kill() was called
phantomReset(ph) ==
    LET spawn == getSpawnPoint(ph.replayPlayer.startParams.spawnIndex % Len(SPAWN_POINTS))
        backVector == vecNeg(spawn.direction.forward)
    IN [ph EXCEPT !.direction = spawn.direction,
                  !.segments = << spawn.position, vecAdd(spawn.position, backVector),
                                  vecAdd(spawn.position, vecAdd(backVector, backVector)) >>,
                  !.lastStepVector = spawn.direction.forward,
                  !.accumulatedTime = 0,
                  !.growthPending = 0,
                  !.isDead = FALSE,
                  !.currentSPM = DEFAULT_SPM,
                  !.replayPlayer = playerReset(@),
                  !.action = "null", !.threw = FALSE, !.killed = FALSE]

newPhantom(replayData) ==
    phantomReset([segments |-> <<>>,
                  direction |-> Frame(Vec(1, 0, 0), Vec(0, 1, 0), Vec(0, 0, 0 - 1)),
                  replayPlayer |-> newReplayPlayer(replayData),
                  moveInterval |-> MsPerMinute \div DEFAULT_SPM,
                  accumulatedTime |-> 0,
                  growthPending |-> 0,
                  isDead |-> FALSE,
                  currentSPM |-> DEFAULT_SPM,
                  lastStepVector |-> Vec(0, 0, 0 - 1),
                  action |-> "null", threw |-> FALSE, killed |-> FALSE])

applyFoodEffect(ph, spmChange) ==
    [ph EXCEPT !.currentSPM = Max2(@ + spmChange, MIN_SPM)]

grow(ph) == [ph EXCEPT !.growthPending = @ + 1]

kill(ph) == [ph EXCEPT !.isDead = TRUE, !.killed = TRUE]

getHead(ph) == ph.segments[1]

\* Phantom.update(delta)
update(ph, delta) ==
    IF ph.isDead THEN ph
    ELSE LET timed == [ph EXCEPT !.moveInterval = MsPerMinute \div ph.currentSPM,
                                 !.accumulatedTime = @ + delta]
         IN IF timed.accumulatedTime >= timed.moveInterval
            THEN LET t == tick(timed.replayPlayer)
                     ticked == [timed EXCEPT !.accumulatedTime = @ - timed.moveInterval,
                                             !.replayPlayer = t.player,
                                             !.action = t.action,
                                             !.threw = t.threw]
                 IN IF t.threw THEN ticked
                    ELSE IF isDeadNow(t.player) THEN [ticked EXCEPT !.isDead = TRUE]
                    ELSE step(applyAction(ticked, t.action))
            ELSE timed

----------------------------------------------------------------------------
(* Two phantoms built from one replay.  playerA is the phantom the game      *)
(* drives (it eats, is killed, is reset on a new room visit); playerB is a   *)
(* second, independent instance that is only advanced.                      *)

InputTicks == {1, 2}
InputEvents == {<<t, d>> : t \in InputTicks, d \in InputDirections}

\* up to two inputs; the recorder stamps them with a tick counter that never goes back
InputLogs ==
    {<<>>} \cup {<<e>> : e \in InputEvents}
           \cup {<<e[1], e[2]>> : e \in {p \in InputEvents \X InputEvents : p[2][1] >= p[1][1]}}

DeathTicks == {2, 3}
PlaybackSpawnIndices == {3}
Deltas == {100, 200}
SpmChanges == {50}

\* ReplayData as the client declares it (tick-indexed)
tickReplay(spawnIndex, log, deathTick) ==
    [id |-> <<P1, 1>>,
     startParams |-> [seed |-> 42, spawnIndex |-> spawnIndex],
     finalScore |-> 10,
     deathTick |-> deathTick,
     inputLog |-> log]

\* ReplayData as the server declares and delivers it (position-indexed)
positionReplay(spawnIndex, log, death) ==
    [id |-> <<P1, 1>>,
     startParams |-> [seed |-> 42, spawnIndex |-> spawnIndex, initialSpeed |-> DEFAULT_SPM,
                      startPosition |-> getSpawnPoint(spawnIndex).position,
                      startDirection |-> getSpawnPoint(spawnIndex).direction.forward],
     finalScore |-> 10,
     deathPosition |-> death,
     trajectoryLog |-> log]

TickReplays ==
    {tickReplay(s, log, d) : s \in PlaybackSpawnIndices, log \in InputLogs, d \in DeathTicks}

\* from spawn point 0, heading -Z: straight on, and one turn to +X after a step
PositionReplays ==
    { positionReplay(0, <<>>, Vec(OFFSET, OFFSET, OFFSET - 2)),
      positionReplay(0, << [position |-> Vec(OFFSET, OFFSET, OFFSET - 1), direction |-> Vec(1, 0, 0)] >>,
                     Vec(OFFSET + 2, OFFSET, OFFSET - 1)) }

PlaybackReplays == TickReplays \cup PositionReplays

InitPlayback ==
    /\ ServerIdle
    /\ subject \in {Some(r) : r \in PlaybackReplays}
    /\ verdict = None
    /\ playerA = Some(newPhantom(Val(subject)))
    /\ playerB = Some(newPhantom(Val(subject)))

canAdvance(ph) == ph.replayPlayer.currentTick < MaxTicks

UpdateA ==
    /\ canAdvance(Val(playerA))
    /\ \E delta \in Deltas : playerA' = Some(update(Val(playerA), delta))
    /\ UNCHANGED <<subject, verdict, playerB>>
    /\ UNCHANGED <<serverVars, callVars>>

UpdateB ==
    /\ canAdvance(Val(playerB))
    /\ \E delta \in Deltas : playerB' = Some(update(Val(playerB), delta))
    /\ UNCHANGED <<subject, verdict, playerA>>
    /\ UNCHANGED <<serverVars, callVars>>

ResetA ==
    /\ playerA' = Some(phantomReset(Val(playerA)))
    /\ UNCHANGED <<subject, verdict, playerB>>
    /\ UNCHANGED <<serverVars, callVars>>

GrowA ==
    /\ ~Val(playerA).isDead
    /\ Val(playerA).growthPending < MaxGrowth
    /\ playerA' = Some(grow(Val(playerA)))
    /\ UNCHANGED <<subject, verdict, playerB>>
    /\ UNCHANGED <<serverVars, callVars>>

FoodA ==
    /\ ~Val(playerA).isDead
    /\ \E spmChange \in SpmChanges :
          /\ Val(playerA).currentSPM + spmChange <= MaxSPM
          /\ playerA' = Some(applyFoodEffect(Val(playerA), spmChange))
    /\ UNCHANGED <<subject, verdict, playerB>>
    /\ UNCHANGED <<serverVars, callVars>>

KillA ==
    /\ ~Val(playerA).isDead
    /\ playerA' = Some(kill(Val(playerA)))
    /\ UNCHANGED <<subject, verdict, playerB>>
    /\ UNCHANGED <<serverVars, callVars>>

NextPlayback == UpdateA \/ UpdateB \/ ResetA \/ GrowA \/ FoodA \/ KillA

SpecPlayback == InitPlayback /\ [][NextPlayback]_vars

stepsOf(ph) == ph.replayPlayer.currentTick

\* C18: two phantoms (and their replay players) built from the same replay
\* data that have been advanced by the same number of steps agree on the
\* action last returned, on the dead flag, on the head position and on the
\* heading, whatever else happened to either of them (food, growth, timing);
\* only a phantom killed by the game may differ, in its own dead flag.
C18_SameStepsSameOutputs ==
    LET a == Val(playerA)
        b == Val(playerB)
    IN stepsOf(a) = stepsOf(b) =>
          /\ a.action = b.action
          /\ a.threw = b.threw
          /\ a.replayPlayer = b.replayPlayer
          /\ (~a.killed => a.isDead = b.isDead)
          /\ getHead(a) = getHead(b)
          /\ a.direction = b.direction

\* both instances have made two steps and turned on the second, while one of
\* them ate on the way (it is faster and longer than the other)
C18_Witness ==
    LET a == Val(playerA)
        b == Val(playerB)
    IN /\ stepsOf(a) = 2 /\ stepsOf(b) = 2
       /\ a.action \in InputDirections
       /\ ~a.isDead /\ ~b.isDead
       /\ a.currentSPM # b.currentSPM
       /\ Len(a.segments) > Len(b.segments)
       /\ getHead(a) # getSpawnPoint(a.replayPlayer.startParams.spawnIndex).position

\* Math.min(accumulatedTime / moveInterval, 1.0), in thousandths
getStepProgress(ph) == Min2((ph.accumulatedTime * Thousand) \div ph.moveInterval, Thousand)

\* what a phantom shows to the game: every field but the private
\* moveInterval, and the step progress computed from it
shown(ph) ==
    [f \in (DOMAIN ph \ {"moveInterval"}) \cup {"stepProgress"} |->
        IF f = "stepProgress" THEN getStepProgress(ph) ELSE ph[f]]

\* the frame times of the next three frames
DeltaRuns == Deltas \X Deltas \X Deltas

RECURSIVE outputsOver(_, _)
outputsOver(ph, deltas) ==
    IF Len(deltas) = 0 THEN <<shown(ph)>>
    ELSE <<shown(ph)>> \o outputsOver(update(ph, Head(deltas)), Tail(deltas))

\* C19: reset, called on a phantom in any state it can reach (fed, grown,
\* dead by replay or killed), gives what a newly constructed phantom shows,
\* and the same outputs over the following frames; its replay player is
\* again the newly constructed one; a second reset changes nothing.
C19_ResetRestoresInitial ==
    LET a == Val(playerA)
        fresh == newPhantom(Val(subject))
        once == phantomReset(a)
    IN /\ playerReset(a.replayPlayer) = newReplayPlayer(Val(subject))
       /\ playerReset(playerReset(a.replayPlayer)) = playerReset(a.replayPlayer)
       /\ shown(once) = shown(fresh)
       /\ phantomReset(once) = once
       /\ \A deltas \in DeltaRuns : outputsOver(once, deltas) = outputsOver(fresh, deltas)

\* a phantom that ate, grew, turned and then died at the replay's death tick
C19_Witness ==
    LET a == Val(playerA)
    IN /\ a.isDead /\ a.replayPlayer.isDead
       /\ stepsOf(a) >= 2
       /\ a.replayPlayer.currentIndex > 0
       /\ a.currentSPM # DEFAULT_SPM
       /\ Len(a.segments) > 3
       /\ a.moveInterval # newPhantom(Val(subject)).moveInterval

\* the head lies k >= 1 units beyond the recorded death position, on the
\* line of its last step
steppedPast(ph, death) ==
    \E k \in 1..MaxTicks :
        /\ getHead(ph).x = death.x + k * ph.lastStepVector.x
        /\ getHead(ph).y = death.y + k * ph.lastStepVector.y
        /\ getHead(ph).z = death.z + k * ph.lastStepVector.z

\* grid units from the start through the recorded changes to the death position
recordedSteps(replay) == calculateTotalDistance(replay) \div Thousand

\* C20: playback is positional.  A replay player is dead only when its head
\* has stepped past the replay's deathPosition, and it is dead once it has
\* made more steps than the recorded path is long; a step that leaves the
\* position of a recorded trajectory change is made in the direction
\* recorded there.
C20_PositionalPlayback ==
    LET b == Val(playerB)
        r == Val(subject)
    IN /\ b.replayPlayer.isDead =>
             /\ Has(r, "deathPosition")
             /\ steppedPast(b, r.deathPosition)
       /\ Has(r, "trajectoryLog") =>
             /\ stepsOf(b) > recordedSteps(r) => b.replayPlayer.isDead
             /\ \A i \in 1..Len(r.trajectoryLog) :
                   (Len(b.segments) > 1 /\ b.segments[2] = r.trajectoryLog[i].position
                        /\ getHead(b) # getSpawnPoint(r.startParams.spawnIndex).position)
                      => b.lastStepVector = r.trajectoryLog[i].direction

----------------------------------------------------------------------------
(* RoomValidator: the evidence and complexity checks                        *)

NoTrajectory == "Score without trajectory"

LowComplexity == "High score with suspicious low complexity"

\* C29: validate rejects every replay with finalScore > 10 and an empty
\* trajectoryLog; it never answers 'Score without trajectory' for a replay
\* with finalScore <= 10; it rejects every replay with finalScore > 1000
\* and fewer than 5 trajectory changes.
C29_EvidenceAndComplexity ==
    IsSome(verdict) =>
        LET replay == Val(subject)
        IN /\ (replay.finalScore > 10 /\ Len(replay.trajectoryLog) = 0) => ~Val(verdict).isValid
           /\ replay.finalScore <= 10 => ~rejectedFor(Val(verdict), NoTrajectory)
           /\ (replay.finalScore > 1000 /\ Len(replay.trajectoryLog) < 5) => ~Val(verdict).isValid

\* a 101-unit run scoring 1001 with a single recorded change: the distance
\* allows the score and the path is continuous, the complexity check rejects it
C29_Witness ==
    /\ subject = Some(validatorReplay(1001, <<[position |-> Origin, direction |-> AxisZ]>>,
                                      Vec(0, 0, 101)))
    /\ verdict = Some(Invalid(LowComplexity))

----------------------------------------------------------------------------
(* Cleanup of over-long lists, retries                                      *)

\* seq without the elements at the indices in removed, from index i on
RECURSIVE dropIndices(_, _, _)
dropIndices(seq, removed, i) ==
    IF i > Len(seq) THEN <<>>
    ELSE (IF i \in removed THEN <<>> ELSE <<seq[i]>>) \o dropIndices(seq, removed, i + 1)

\* removed holds the lowest scores of the list, the lower index on equal scores
lowestFirst(phantoms, removed) ==
    \A r \in removed, j \in (1..Len(phantoms)) \ removed :
        \/ phantoms[r].score < phantoms[j].score
        \/ phantoms[r].score = phantoms[j].score /\ r < j

\* C27: when a room's stored active_phantoms is longer than MAX_PHANTOMS,
\* assignSpawnIndex removes the phantoms with the lowest scores (lower index
\* first on equal scores) so that exactly MAX_PHANTOMS remain in their stored
\* order, deletes the blob of each removed phantom and persists the metadata;
\* when the room is within the limit it leaves storage as it is.
C27_LegacyCleanup ==
    \A k \in SeedKeys :
        LET before == activePhantoms(k)
            out == assignSpawnIndex(store, k)
        IN IF Len(before) > MAX_PHANTOMS
           THEN \E removed \in SUBSET (1..Len(before)) :
                   /\ Cardinality(removed) = Len(before) - MAX_PHANTOMS
                   /\ lowestFirst(before, removed)
                   /\ out.store.meta[k] =
                         Some([getRoomMeta(store, k) EXCEPT
                                  !.active_phantoms = dropIndices(before, removed, 1)])
                   /\ out.store.replays[k] =
                         {b \in replays[k] : \A r \in removed : b.id # before[r].replayId}
                   /\ k \in out.store.dirs
           ELSE out.store = store

\* a stored list of more than MAX_PHANTOMS phantoms, read by the current
\* store, whose lowest score is held by two phantoms, neither of them the first
C27_Witness ==
    /\ version = "v2"
    /\ \E k \in SeedKeys :
          LET all == activePhantoms(k)
          IN /\ Len(all) > MAX_PHANTOMS
             /\ \E i, j \in 2..Len(all) :
                   /\ i < j
                   /\ all[i].score = all[j].score
                   /\ all[i].score < all[1].score
                   /\ all[i].replayId # all[j].replayId
                   /\ IsSome(getReplay(store, k, all[i].replayId))

\* the same player sending the same payload again, at once or a moment later
retryOf(out, msg, time) == processGameOver(out.store, msg[1], msg[2], time)

\* C28: a candidate resubmitted with the same spawn index and score right
\* after its first submission is discarded: the room's active phantoms and
\* stored blobs stay as the first submission left them, whether that one was
\* admitted or not.
C28_RetryDiscarded ==
    \A msg \in GoodMessages :
        LET out == outcome(msg)
        IN \A time \in {t \in Times : t >= now} :
              LET retry == retryOf(out, msg, time)
              IN /\ ~retry.result.saved
                 /\ metaAfter(retry, msg).active_phantoms = metaAfter(out, msg).active_phantoms
                 /\ retry.store.replays = out.store.replays

\* a full room in which a submission evicts the weakest phantom, and its
\* retry a moment later meets its own phantom on the spawn point
C28_Witness ==
    \E msg \in GoodMessages :
        LET out == outcome(msg)
        IN /\ Len(activePhantoms(keyOf(msg))) = MAX_PHANTOMS
           /\ out.result.saved /\ out.branch = "evict"
           /\ \E time \in Times :
                 /\ time > now
                 /\ retryOf(out, msg, time).branch = "collision-discard"

----------------------------------------------------------------------------
(* Room lifecycle *)

\* the seeds getAllRoomSeeds lists in a store whose reads succeed
listed(st) == getAllRoomSeedsIO(st, {}).value

\* C24 as stated: a room is listed as soon as a join or a submission touches
\* its seed, and a listed room is never removed.
C24_ListedOnTouch ==
    /\ \A k \in Seeds : \A random \in Seeds :
          /\ toString(k) \in listed(getRoomData(store, k).store)
          /\ toString(random) \in listed(getRoomData(store, random).store)
    /\ \A msg \in GoodMessages : keyOf(msg) \in listed(outcome(msg).store)
    /\ \A msg \in Messages : listed(store) \subseteq listed(outcome(msg).store)

\* C24 amended: a room is listed as soon as a submission for its seed passes
\* the checks of processGameOver and reaches addReplayToRoom; a join or a
\* rejected submission lists nothing new; a listed room is never removed by
\* any submission, join, eviction or cleanup.
C24_ListedOnSubmission ==
    /\ \A msg \in Messages :
          LET out == outcome(msg)
          IN /\ listed(store) \subseteq listed(out.store)
             /\ IsSome(out.handed) => keyOf(msg) \in listed(out.store)
             /\ ~IsSome(out.handed) => listed(out.store) = listed(store)
    /\ \A k \in Seeds : listed(getRoomData(store, k).store) = listed(store)

\* a join answered for a seed nobody has submitted to: the room is not listed
C24_Witness ==
    /\ last.event = "room:join"
    /\ listed(store) = {}
    /\ \E msg \in GoodMessages : listed(outcome(msg).store) = {keyOf(msg)}

----------------------------------------------------------------------------
(* Matchmaking: findRoomForPlayer over the rooms of the data directory *)

MAX_ELO_DIFF == 500
DEFAULT_ELO == 1000

\* the seeds of the rooms of the data directory, and what generateRandomSeed
\* may return: Math.floor(Math.random() * 1000000) can be any of them
RoomSeeds == {41, 42, 43}
RoomKeys == {toString(s) : s \in RoomSeeds}
PlayerElos == {500, 1000, 1400, 2200}
MaxFinds == 1

\* p.elo ?? 1000
eloOf(p) == IF Has(p, "elo") THEN p.elo ELSE DEFAULT_ELO

\* active_phantoms.reduce((sum, p) => sum + (p.elo ?? 1000), 0)
RECURSIVE sumElo(_)
sumElo(phantoms) ==
    IF phantoms = <<>> THEN 0 ELSE eloOf(Head(phantoms)) + sumElo(Tail(phantoms))

\* avgElo of a room, as the fraction num / den
avgElo(m) ==
    IF Len(m.active_phantoms) > 0
    THEN [num |-> sumElo(m.active_phantoms), den |-> Len(m.active_phantoms)]
    ELSE [num |-> DEFAULT_ELO, den |-> 1]

\* Math.abs(avgElo - playerElo), as a fraction
eloDiff(m, playerElo) ==
    LET avg == avgElo(m)
    IN [num |-> Abs(avg.num - playerElo * avg.den), den |-> avg.den]

\* a < b on fractions with positive denominators
fracLess(a, b) == a.num * b.den < b.num * a.den

\* the loop over allSeeds keeping the strictly closest room:
\* best is <<>> while minEloDiff is Infinity, else <<[seed, diff]>>
RECURSIVE closestByElo(_, _, _, _)
closestByElo(st, allSeeds, playerElo, best) ==
    IF allSeeds = <<>> THEN best
    ELSE LET seed == Head(allSeeds)
             diff == eloDiff(getRoomMeta(st, seed), playerElo)
             closer == IF IsSome(best) THEN fracLess(diff, Val(best).diff) ELSE TRUE
         IN closestByElo(st, Tail(allSeeds), playerElo,
                         IF closer THEN Some([seed |-> seed, diff |-> diff]) ELSE best)

\* the return statement of a minted room
mintedRoom(st, newSeed) ==
    [minted |-> TRUE,
     data |-> [seed |-> newSeed, phantoms |-> <<>>, playerSpawnIndex |-> 0],
     store |-> st]

\* the return statement of a selected room: getRoomData(parseInt(seed, 10))
selectedRoom(st, seed) ==
    LET out == getRoomData(st, parseInt(seed))
    IN [minted |-> FALSE, data |-> out.data, store |-> out.store]

\* a selection that takes the closest room however far it is
findRoomForPlayerAnyDistance(st, allSeeds, playerElo, newSeed) ==
    LET best == closestByElo(st, allSeeds, playerElo, None)
    IN IF IsSome(best) THEN selectedRoom(st, Val(best).seed)
       ELSE mintedRoom(st, newSeed)

\* findRoomForPlayer, ELO variant; allSeeds is what getAllRoomSeeds returned,
\* newSeed what generateRandomSeed returns if it is called
findRoomForPlayer(st, allSeeds, playerElo, newSeed) ==
    LET best == closestByElo(st, allSeeds, playerElo, None)
    IN IF /\ IsSome(best)
          /\ Val(best).diff.num <= MAX_ELO_DIFF * Val(best).diff.den
       THEN selectedRoom(st, Val(best).seed)
       ELSE mintedRoom(st, newSeed)

\* the inner loop of the least-played variant: has playerId an active phantom
hasActiveGame(st, seed, phantoms, playerId) ==
    \E i \in 1..Len(phantoms) :
        \/ Has(phantoms[i], "playerId") /\ phantoms[i].playerId = playerId
        \/ /\ ~Has(phantoms[i], "playerId")
           /\ LET replay == getReplay(st, seed, phantoms[i].replayId)
              IN IsSome(replay) /\ Val(replay).playerId = playerId

\* the outer loop of the least-played variant: acc is [minGames, candidates],
\* minGames <<>> while it is Infinity
RECURSIVE leastPlayed(_, _, _, _)
leastPlayed(st, allSeeds, playerId, acc) ==
    IF allSeeds = <<>> THEN acc
    ELSE LET seed == Head(allSeeds)
             m == getRoomMeta(st, seed)
             games == m.total_games_played
             next ==
                 IF hasActiveGame(st, seed, m.active_phantoms, playerId) THEN acc
                 ELSE IF ~IsSome(acc.minGames) \/ games < Val(acc.minGames)
                      THEN [minGames |-> Some(games), candidates |-> <<seed>>]
                      ELSE IF games = Val(acc.minGames)
                           THEN [acc EXCEPT !.candidates = Append(@, seed)]
                           ELSE acc
         IN leastPlayed(st, Tail(allSeeds), playerId, next)

\* a least-played selection that keeps the rooms the player is active in
findRoomLeastPlayedAnyRoom(st, allSeeds, playerId, randomIndex, newSeed) ==
    LET found == leastPlayed(st, allSeeds, <<>>,
                             [minGames |-> None, candidates |-> <<>>])
    IN IF Len(found.candidates) > 0
       THEN selectedRoom(st, found.candidates[(randomIndex % Len(found.candidates)) + 1])
       ELSE mintedRoom(st, newSeed)

\* findRoomForPlayer, least-played variant; randomIndex stands for
\* Math.floor(Math.random() * candidates.length)
findRoomLeastPlayed(st, allSeeds, playerId, randomIndex, newSeed) ==
    LET found == leastPlayed(st, allSeeds, playerId,
                             [minGames |-> None, candidates |-> <<>>])
    IN IF Len(found.candidates) > 0
       THEN selectedRoom(st, found.candidates[(randomIndex % Len(found.candidates)) + 1])
       ELSE mintedRoom(st, newSeed)

\* the orders in which readdir may list a set of room directories
Orders(keys) ==
    {o \in [1..Cardinality(keys) -> keys] : \A i, j \in 1..Cardinality(keys) : o[i] = o[j] => i = j}

\* a stored phantom and its blob; playerId <<>> is a record of the store
\* generation that kept the owner in the blob only, elo <<>> a record without elo
storedPhantom(playerId, time, score, spawnIndex, inMeta, elo) ==
    LET base == [replayId |-> replayIdOf(playerId, time), score |-> score,
                 spawnIndex |-> spawnIndex]
        owned == IF inMeta
                 THEN [f \in DOMAIN base \cup {"playerId"} |->
                          IF f = "playerId" THEN playerId ELSE base[f]]
                 ELSE base
    IN IF IsSome(elo)
       THEN [f \in DOMAIN owned \cup {"elo"} |-> IF f = "elo" THEN Val(elo) ELSE owned[f]]
       ELSE owned

storedBlob(playerId, time, score, spawnIndex) ==
    completeReplayOf(playerId, goodReplay(score, spawnIndex), time)

\* the rooms a data directory may hold: no directory, a directory without
\* meta.json, and rooms of one or two phantoms (halves are exact in a double)
StoredRooms ==
    {[listed |-> FALSE, meta |-> None, blobs |-> {}],
     [listed |-> TRUE, meta |-> None, blobs |-> {}],
     [listed |-> TRUE,
      meta |-> Some([total_games_played |-> 1, players_history |-> <<P1>>,
                     active_phantoms |-> <<storedPhantom(P1, 1, 10, 0, TRUE, Some(400))>>]),
      blobs |-> {storedBlob(P1, 1, 10, 0)}],
     [listed |-> TRUE,
      meta |-> Some([total_games_played |-> 2, players_history |-> <<P3>>,
                     active_phantoms |-> <<storedPhantom(P3, 1, 10, 0, TRUE, Some(1600)),
                                           storedPhantom(P3, 2, 11, 1, TRUE, None)>>]),
      blobs |-> {storedBlob(P3, 1, 10, 0), storedBlob(P3, 2, 11, 1)}],
     [listed |-> TRUE,
      meta |-> Some([total_games_played |-> 2, players_history |-> <<P1>>,
                     active_phantoms |-> <<storedPhantom(P1, 1, 11, 0, FALSE, None)>>]),
      blobs |-> {storedBlob(P1, 1, 11, 0)}],
     [listed |-> TRUE,
      meta |-> Some([total_games_played |-> 1, players_history |-> <<P1>>,
                     active_phantoms |-> <<storedPhantom(P1, 2, 11, 0, TRUE, Some(1600))>>]),
      blobs |-> {storedBlob(P1, 2, 11, 0)}]}

\* a server started on a data directory of up to three rooms
InitRooms ==
    /\ \E room \in [RoomKeys -> StoredRooms] :
          /\ meta = [k \in RoomKeys |->
                        IF IsSome(room[k].meta)
                        THEN Some([f \in DOMAIN Val(room[k].meta) \cup {"seed"} |->
                                      IF f = "seed" THEN k ELSE Val(room[k].meta)[f]])
                        ELSE None]
          /\ replays = [k \in RoomKeys |-> room[k].blobs]
          /\ dirs = {k \in RoomKeys : room[k].listed}
    /\ now = 1
    /\ version = "v2"
    /\ n = 0
    /\ last = [event |-> "none", branch |-> "none", emitted |-> <<>>]
    /\ subject = None /\ verdict = None /\ playerA = None /\ playerB = None
    /\ CallsIdle

\* what a call of findRoomForPlayer leaves behind
found(event, out) ==
    /\ setStore(out.store)
    /\ last' = [event |-> event,
                branch |-> IF out.minted THEN "minted" ELSE "selected",
                emitted |-> <<out.data>>]
    /\ n' = n + 1
    /\ UNCHANGED <<now, version>>
    /\ UNCHANGED <<replayVars, callVars>>

FindRoomByElo ==
    /\ n < MaxFinds
    /\ \E allSeeds \in Orders(listed(store)), playerElo \in PlayerElos,
          newSeed \in RoomSeeds :
          found("find:elo", findRoomForPlayer(store, allSeeds, playerElo, newSeed))

FindRoomLeastPlayed ==
    /\ n < MaxFinds
    /\ \E allSeeds \in Orders(listed(store)), playerId \in Players,
          randomIndex \in 0..2, newSeed \in RoomSeeds :
          found("find:least-played",
                findRoomLeastPlayed(store, allSeeds, playerId, randomIndex, newSeed))

NextRooms == FindRoomByElo \/ FindRoomLeastPlayed

SpecRooms == InitRooms /\ [][NextRooms]_vars

\* the ELO of the phantoms of stored room k added up, each without elo as 1000
RECURSIVE eloTotal(_, _)
eloTotal(k, i) ==
    IF i = 0 THEN 0
    ELSE LET p == activePhantoms(k)[i]
         IN (IF "elo" \in DOMAIN p THEN p.elo ELSE 1000) + eloTotal(k, i - 1)

\* |average ELO of room k - playerElo| times weight(k); a room without
\* phantoms averages 1000
weight(k) == IF activePhantoms(k) = <<>> THEN 1 ELSE Len(activePhantoms(k))
gapWeighted(k, playerElo) ==
    IF activePhantoms(k) = <<>> THEN Abs(1000 - playerElo)
    ELSE Abs(eloTotal(k, Len(activePhantoms(k))) - playerElo * weight(k))
withinLimit(k, playerElo) == gapWeighted(k, playerElo) <= 500 * weight(k)
noFarther(a, b, playerElo) ==
    gapWeighted(a, playerElo) * weight(b) <= gapWeighted(b, playerElo) * weight(a)

\* C22: the ELO variant selects an existing room exactly when some listed
\* room's average phantom ELO is within 500 of the player's; the selected
\* room is the first enumerated among those of minimal gap; otherwise the
\* seed returned is the one generateRandomSeed minted.
C22_ClosestWithinLimit ==
    \A allSeeds \in Orders(listed(store)), playerElo \in PlayerElos, newSeed \in RoomSeeds :
        LET out == findRoomForPlayer(store, allSeeds, playerElo, newSeed)
        IN /\ ~out.minted <=> \E k \in listed(store) : withinLimit(k, playerElo)
           /\ ~out.minted =>
                 \E i \in 1..Len(allSeeds) :
                    /\ out.data.seed = parseInt(allSeeds[i])
                    /\ \A j \in 1..Len(allSeeds) :
                          /\ noFarther(allSeeds[i], allSeeds[j], playerElo)
                          /\ j < i => ~noFarther(allSeeds[j], allSeeds[i], playerElo)
           /\ out.minted => out.data = [seed |-> newSeed, phantoms |-> <<>>,
                                        playerSpawnIndex |-> 0]

\* a search by ELO was answered, in a directory where two rooms tie for the
\* smallest gap to some player and a third is farther than the limit from
\* that player
C22_Witness ==
    /\ last.event = "find:elo"
    /\ last.branch = "selected"
    /\ \E playerElo \in PlayerElos : \E a, b, c \in listed(store) :
          /\ a # b
          /\ noFarther(a, b, playerElo) /\ noFarther(b, a, playerElo)
          /\ withinLimit(a, playerElo)
          /\ 0 < gapWeighted(a, playerElo)
          /\ ~withinLimit(c, playerElo)

\* the player who owns a stored phantom: the playerId of the metadata, or
\* of the blob for a phantom recorded without one
ownsPhantom(k, phantom, playerId) ==
    IF "playerId" \in DOMAIN phantom THEN phantom.playerId = playerId
    ELSE \E b \in replays[k] : b.id = phantom.replayId /\ b.playerId = playerId

activeIn(k, playerId) ==
    \E i \in 1..Len(activePhantoms(k)) : ownsPhantom(k, activePhantoms(k)[i], playerId)

C23_MintedRoomIsEmpty ==
    \A allSeeds \in Orders(listed(store)), newSeed \in RoomSeeds :
        /\ \A playerElo \in PlayerElos :
              LET out == findRoomForPlayer(store, allSeeds, playerElo, newSeed)
              IN out.minted =>
                    /\ out.data.playerSpawnIndex = 0
                    /\ out.data.phantoms = <<>>
                    /\ activePhantoms(toString(out.data.seed)) = <<>>
        /\ \A playerId \in Players :
              LET out == findRoomLeastPlayed(store, allSeeds, playerId, 0, newSeed)
              IN out.minted =>
                    /\ out.data.playerSpawnIndex = 0
                    /\ out.data.phantoms = <<>>
                    /\ activePhantoms(toString(out.data.seed)) = <<>>

----------------------------------------------------------------------------
(* Handlers of two connections interleaved at their await points *)

MaxCalls == 3
MaxClock == 3

\* the player each connection authenticated as
playerOf(c) == IF c = "c1" THEN P1 ELSE P3
PairSeeds == {42, 43}
PairKeys == {toString(s) : s \in PairSeeds}
PairSpawnIndices == {0, 3}
PairScores == {10, 12}

\* the file operations addReplayToRoom awaits, in order, after it has read
\* the metadata of seed from st and decided on its local copy
writesOf(st, seed, replay) ==
    LET m == countGame(getRoomMeta(st, seed), replay)
        out == addReplayToRoom(st, seed, replay)
        victim ==
            IF out.branch = "collision-replace"
            THEN <<m.active_phantoms[findCollisionIndex(m.active_phantoms,
                                         replay.startParams.spawnIndex)].replayId>>
            ELSE IF out.branch = "evict"
            THEN <<m.active_phantoms[findWorstIndex(m.active_phantoms)].replayId>>
            ELSE <<>>
    IN [saved |-> out.saved,
        branch |-> out.branch,
        writes |->
            (IF victim # <<>>
             THEN <<[op |-> "deleteReplay", replayId |-> victim[1]]>> ELSE <<>>)
            \o (IF out.saved THEN <<[op |-> "saveReplay", replay |-> replay]>> ELSE <<>>)
            \o <<[op |-> "saveRoomMeta", meta |-> Val(out.store.meta[seed])]>>]

\* a saveRoomMeta that adds the call's phantom to the list stored by now
applyWriteOntoStored(st, seed, w) ==
    IF w.op = "deleteReplay" THEN deleteReplay(st, seed, w.replayId)
    ELSE IF w.op = "saveReplay" THEN saveReplay(st, seed, w.replay)
    ELSE saveRoomMeta(st, seed,
            [w.meta EXCEPT !.active_phantoms =
                IF @ = <<>> THEN @
                ELSE Append(getRoomMeta(st, seed).active_phantoms, @[Len(@)])])

\* one awaited file operation carried out on the store
applyWrite(st, seed, w) ==
    IF w.op = "deleteReplay" THEN deleteReplay(st, seed, w.replayId)
    ELSE IF w.op = "saveReplay" THEN saveReplay(st, seed, w.replay)
    ELSE saveRoomMeta(st, seed, w.meta)

RECURSIVE applyWrites(_, _, _)
applyWrites(st, seed, writes) ==
    IF writes = <<>> THEN st
    ELSE applyWrites(applyWrite(st, seed, Head(writes)), seed, Tail(writes))

\* the server started on an empty data directory, or on one whose room 42
\* is full
PairRooms ==
    {[meta |-> None, blobs |-> {}],
     [meta |-> Some([seed |-> toString(42), total_games_played |-> 3,
                     players_history |-> <<P1, P3>>,
                     active_phantoms |-> <<storedPhantom(P1, 0, 10, 0, TRUE, None),
                                           storedPhantom(P3, 0, 10, 1, TRUE, None),
                                           storedPhantom(P1, 1, 11, 2, TRUE, None)>>]),
      blobs |-> {storedBlob(P1, 0, 10, 0), storedBlob(P3, 0, 10, 1),
                 storedBlob(P1, 1, 11, 2)}]}

gamesStored(st, k) == getRoomMeta(st, k).total_games_played

InitConcurrent ==
    /\ \E room \in PairRooms :
          /\ meta = [k \in PairKeys |-> IF k = toString(42) THEN room.meta ELSE None]
          /\ replays = [k \in PairKeys |-> IF k = toString(42) THEN room.blobs ELSE {}]
          /\ dirs = IF IsSome(room.meta) THEN {toString(42)} ELSE {}
    /\ now = 2
    /\ version = "v2"
    /\ n = 0
    /\ last = [event |-> "none", branch |-> "none", emitted |-> <<>>]
    /\ subject = None /\ verdict = None /\ playerA = None /\ playerB = None
    /\ calls = [c \in Connections |-> None]
    /\ alone = [k \in PairKeys |-> store]
    /\ counted = [k \in PairKeys |-> gamesStored(store, k)]

\* socket.on('game:over') up to the first await of addReplayToRoom: the
\* payload is checked and the replay completed with its id
BeginGameOver(c) ==
    /\ calls[c] = None
    /\ n < MaxCalls
    /\ \E seed \in PairSeeds, score \in PairScores, spawnIndex \in PairSpawnIndices :
          calls' = [calls EXCEPT ![c] =
                       Some([kind |-> "game:over", key |-> toString(seed), pc |-> "read",
                             replay |-> completeReplayOf(playerOf(c),
                                            goodReplay(score, spawnIndex), now)])]
    /\ n' = n + 1
    /\ UNCHANGED <<meta, replays, dirs, now, version, last, alone, counted>>
    /\ UNCHANGED replayVars

\* await getRoomMeta(seed) returns; the call decides on its copy of the
\* metadata and reaches its first awaited write
ReadMeta(c) ==
    /\ calls[c] # None
    /\ Val(calls[c]).kind = "game:over"
    /\ Val(calls[c]).pc = "read"
    /\ LET call == Val(calls[c])
           plan == writesOf(store, call.key, call.replay)
           shadow == writesOf(alone[call.key], call.key, call.replay)
       IN calls' = [calls EXCEPT ![c] =
                       Some([kind |-> "game:over", key |-> call.key, pc |-> "write",
                             replay |-> call.replay, saved |-> plan.saved,
                             branch |-> plan.branch, writes |-> plan.writes,
                             shadow |-> shadow.writes])]
    /\ UNCHANGED <<meta, replays, dirs, now, version, n, last, alone, counted>>
    /\ UNCHANGED replayVars

\* one awaited write of the call completes; after the last one
\* addReplayToRoom returns and the handler emits game:result
Write(c) ==
    /\ calls[c] # None
    /\ Val(calls[c]).kind = "game:over"
    /\ Val(calls[c]).pc = "write"
    /\ LET call == Val(calls[c])
           finished == Len(call.writes) = 1
           shadowNow == IF finished THEN call.shadow
                        ELSE SubSeq(call.shadow, 1, Min2(1, Len(call.shadow)))
           shadowLeft == SubSeq(call.shadow, Len(shadowNow) + 1, Len(call.shadow))
       IN /\ setStore(applyWrite(store, call.key, Head(call.writes)))
          /\ alone' = [alone EXCEPT ![call.key] = applyWrites(@, call.key, shadowNow)]
          /\ IF finished
             THEN /\ calls' = [calls EXCEPT ![c] = None]
                  /\ counted' = [counted EXCEPT ![call.key] = @ + 1]
                  /\ last' = [event |-> "game:over", branch |-> call.branch,
                              emitted |-> <<[event |-> "game:result",
                                             data |-> [saved |-> call.saved,
                                                       replayId |-> call.replay.id]]>>]
             ELSE /\ calls' = [calls EXCEPT ![c] =
                                  Some([call EXCEPT !.writes = Tail(@),
                                                    !.shadow = shadowLeft])]
                  /\ UNCHANGED <<counted, last>>
    /\ UNCHANGED <<now, version, n>>
    /\ UNCHANGED replayVars

\* socket.on('room:join') up to the await of assignSpawnIndex
BeginJoin(c) ==
    /\ calls[c] = None
    /\ n < MaxCalls
    /\ \E seed \in PairSeeds :
          calls' = [calls EXCEPT ![c] =
                       Some([kind |-> "room:join", seed |-> seed, key |-> toString(seed),
                             pc |-> "assign"])]
    /\ n' = n + 1
    /\ UNCHANGED <<meta, replays, dirs, now, version, last, alone, counted>>
    /\ UNCHANGED replayVars

\* await assignSpawnIndex(seedStr) returns
AssignSpawn(c) ==
    /\ calls[c] # None
    /\ Val(calls[c]).kind = "room:join"
    /\ Val(calls[c]).pc = "assign"
    /\ LET call == Val(calls[c])
           assigned == assignSpawnIndex(store, call.key)
       IN /\ setStore(assigned.store)
          /\ alone' = [alone EXCEPT ![call.key] = assignSpawnIndex(@, call.key).store]
          /\ calls' = [calls EXCEPT ![c] =
                          Some([kind |-> "room:join", seed |-> call.seed, key |-> call.key,
                                pc |-> "replays", spawnIndex |-> assigned.spawnIndex])]
    /\ UNCHANGED <<now, version, n, last, counted>>
    /\ UNCHANGED replayVars

\* await getActiveReplays(seedStr) returns and the handler emits room:data
EmitRoomData(c) ==
    /\ calls[c] # None
    /\ Val(calls[c]).kind = "room:join"
    /\ Val(calls[c]).pc = "replays"
    /\ LET call == Val(calls[c])
       IN last' = [event |-> "room:join", branch |-> "free",
                   emitted |-> <<[event |-> "room:data",
                                  data |-> [seed |-> call.seed,
                                            phantoms |-> getActiveReplays(store, call.key),
                                            playerSpawnIndex |-> call.spawnIndex]]>>]
    /\ calls' = [calls EXCEPT ![c] = None]
    /\ UNCHANGED <<meta, replays, dirs, now, version, n, alone, counted>>
    /\ UNCHANGED replayVars

\* the clock advancing while calls are in flight
TickConcurrent ==
    /\ now < MaxClock
    /\ now' = now + 1
    /\ UNCHANGED <<meta, replays, dirs, version, n, last>>
    /\ UNCHANGED <<replayVars, callVars>>

NextConcurrent ==
    \/ TickConcurrent
    \/ \E c \in Connections :
          \/ BeginGameOver(c) \/ ReadMeta(c) \/ Write(c)
          \/ BeginJoin(c) \/ AssignSpawn(c) \/ EmitRoomData(c)

SpecConcurrent == InitConcurrent /\ [][NextConcurrent]_vars

\* the awaited writes of a call, carried out with no other call in between,
\* are addReplayToRoom run to completion
WritesAreAddReplayToRoom ==
    \A c \in Connections :
        (calls[c] # None /\ Val(calls[c]).kind = "game:over" /\ Val(calls[c]).pc = "read") =>
            LET call == Val(calls[c])
            IN applyWrites(store, call.key, writesOf(store, call.key, call.replay).writes)
                  = addReplayToRoom(store, call.key, call.replay).store

\* connection c has an addReplayToRoom call on room k between its read of
\* the metadata and its last write
writing(c, k) ==
    /\ calls[c] # None
    /\ Val(calls[c]).kind = "game:over"
    /\ Val(calls[c]).key = k
    /\ Val(calls[c]).pc = "write"

\* C25: whatever the interleaving of addReplayToRoom calls on one seed, every
\* persisted metadata record holds at most MAX_PHANTOMS active phantoms, no
\* two of them on the same spawn index.
C25_PersistedMetaValid ==
    \A k \in DOMAIN meta :
        IsSome(meta[k]) =>
            LET phantoms == Val(meta[k]).active_phantoms
            IN /\ Len(phantoms) <= MAX_PHANTOMS
               /\ \A i, j \in 1..Len(phantoms) :
                     phantoms[i].spawnIndex = phantoms[j].spawnIndex => i = j

\* two calls on the same full room overlap: both have read the metadata,
\* they are about to persist different phantom lists, and the room's record
\* has already been rewritten since the server started
C25_Witness ==
    \E k \in PairKeys :
        /\ writing("c1", k) /\ writing("c2", k)
        /\ Len(activePhantoms(k)) = MAX_PHANTOMS
        /\ counted[k] > 3
        /\ LET w1 == Val(calls["c1"]).writes
               w2 == Val(calls["c2"]).writes
           IN w1[Len(w1)].meta.active_phantoms # w2[Len(w2)].meta.active_phantoms

\* C26: the persisted total_games_played of a room never decreases, and
\* whenever no addReplayToRoom call on the room is in flight it equals the
\* number of completed calls (on top of the count the room started with).
C26_CounterCountsCalls ==
    [][\A k \in PairKeys :
          /\ gamesStored(store, k)' >= gamesStored(store, k)
          /\ (\A c \in Connections :
                 calls'[c] = None \/ Val(calls'[c]).kind # "game:over"
                    \/ Val(calls'[c]).key # k)
                => gamesStored(store, k)' = counted'[k]]_vars

\* C21: for every interleaving of submissions and joins on two seeds, the
\* persisted state of each room (metadata, blobs, directory) is the one
\* obtained by carrying out only that room's operations, in the same order,
\* on a store of its own.
C21_RoomsIndependent ==
    \A k \in PairKeys :
        /\ meta[k] = alone[k].meta[k]
        /\ replays[k] = alone[k].replays[k]
        /\ k \in dirs <=> k \in alone[k].dirs

\* a submission to room 42 and one to room 43 are both between their writes,
\* each room already holding a record
C21_Witness ==
    \E c, d \in Connections :
        /\ writing(c, toString(42)) /\ writing(d, toString(43))
        /\ IsSome(meta[toString(42)]) /\ IsSome(meta[toString(43)])
        /\ Len(Val(calls[c]).writes) = 1
        /\ Len(Val(calls[d]).writes) = 1

----------------------------------------------------------------------------
(* Spawn indexes a client may send *)

\* payloads whose spawnIndex is a number, as processGameOver requires, in
\* and out of the range of spawn points
NumericSpawnPayloads ==
    {goodPayload(seed, score, k) :
        seed \in Seeds, score \in Scores, k \in SpawnIndices \cup {0 - 1, MAX_SPAWN_POINTS}}

\* C31: no submission accepted by processGameOver leaves a room with an active
\* phantom whose spawnIndex is outside 0 .. MAX_SPAWN_POINTS - 1.
C31_SpawnIndexInRange ==
    \A playerId \in Players, payload \in NumericSpawnPayloads :
        LET out == processGameOver(store, playerId, payload, now)
            phantoms == getRoomMeta(out.store, toString(payload.seed)).active_phantoms
        IN \A i \in 1..Len(phantoms) :
              phantoms[i].spawnIndex \in 0..(MAX_SPAWN_POINTS - 1)

\* no addReplayToRoom call on room k is between its read and its last write
settled(k) ==
    \A c \in Connections :
        calls[c] = None \/ Val(calls[c]).kind # "game:over" \/ Val(calls[c]).key # k

\* C32: once every addReplayToRoom call on a seed has completed, whatever
\* their interleaving, every phantom of the persisted active_phantoms has a
\* stored blob and every stored blob is listed in active_phantoms.
C32_BlobsMatchPhantoms ==
    \A k \in PairKeys :
        settled(k) =>
            /\ \A i \in 1..Len(activePhantoms(k)) :
                  \E b \in replays[k] : b.id = activePhantoms(k)[i].replayId
            /\ \A b \in replays[k] :
                  \E i \in 1..Len(activePhantoms(k)) : activePhantoms(k)[i].replayId = b.id

----------------------------------------------------------------------------
(* Two players joining the same room *)

\* the stores in which a second join may find the room after a first join
\* left it in st: untouched, or after a submission that was not admitted
afterNoAdmission(st) ==
    {st} \cup {processGameOver(st, msg[1], msg[2], now).store :
                  msg \in {g \in GoodMessages :
                              ~processGameOver(st, g[1], g[2], now).result.saved}}

\* the phantom record of the run a processGameOver outcome handed to the store
runOf(out) == newPhantomOf(Val(out.handed))

\* how many phantoms of a list are one of the given runs
countOf(phantoms, runs) == Cardinality({i \in 1..Len(phantoms) : phantoms[i] \in runs})

\* C33: two joins of one room with no admitted submission between them are
\* given the same playerSpawnIndex and change nothing in the store; when both
\* players then submit on that index, at most one of the two runs is an
\* active phantom, and if the first was admitted the second is active only
\* with a strictly higher score.
C33_JoinsShareSpawnIndex ==
    \A seed \in Seeds :
        LET first == getRoomData(store, seed)
            k == toString(seed)
        IN /\ first.store = store
           /\ \A st \in afterNoAdmission(first.store) :
                 LET second == getRoomData(st, seed)
                     spawnIndex == first.data.playerSpawnIndex
                 IN /\ second.data.playerSpawnIndex = spawnIndex
                    /\ second.store = st
                    /\ \A scoreA, scoreB \in Scores, later \in {t \in Times : t >= now} :
                          LET runA == processGameOver(st, P1,
                                          goodPayload(seed, scoreA, spawnIndex), now)
                              runB == processGameOver(runA.store, P3,
                                          goodPayload(seed, scoreB, spawnIndex), later)
                              phantoms == getRoomMeta(runB.store, k).active_phantoms
                          IN /\ countOf(phantoms, {runOf(runA), runOf(runB)}) <= 1
                             /\ (runA.result.saved /\ runB.result.saved) =>
                                   /\ scoreB > scoreA
                                   /\ countOf(phantoms, {runOf(runA)}) = 0

\* a join was just answered for a room with two phantoms; a second join gets
\* the same index, the players' runs on it are both admitted and the second
\* replaces the first
C33_Witness ==
    /\ last.event = "room:join"
    /\ \E seed \in Seeds :
          LET spawnIndex == getRoomData(store, seed).data.playerSpawnIndex
              runA == processGameOver(store, P1, goodPayload(seed, 10, spawnIndex), now)
              runB == processGameOver(runA.store, P3, goodPayload(seed, 11, spawnIndex), now)
          IN /\ Len(activePhantoms(toString(seed))) = 2
             /\ last.emitted[1].data.playerSpawnIndex = spawnIndex
             /\ runA.result.saved /\ runB.result.saved
             /\ runB.branch = "collision-replace"

----------------------------------------------------------------------------
(* What a sequential admission may remove *)

\* the lowest score of a non-empty list of phantoms
minScore(phantoms) ==
    CHOOSE s \in {phantoms[i].score : i \in 1..Len(phantoms)} :
        \A i \in 1..Len(phantoms) : s <= phantoms[i].score

\* C34: a sequential addReplayToRoom call on a room of at most MAX_PHANTOMS
\* phantoms never shortens the list of active phantoms; a phantom leaves
\* the list only in a call that puts the submitted run, of strictly higher
\* score, in its slot; a full room's minimum active score never decreases.
C34_RemovedOnlyForBetter ==
    \A msg \in GoodMessages :
        LET before == activePhantoms(keyOf(msg))
            out == outcome(msg)
            after == metaAfter(out, msg).active_phantoms
        IN Len(before) <= MAX_PHANTOMS =>
              /\ Len(after) >= Len(before)
              /\ \A i \in 1..Len(before) :
                    \/ after[i] = before[i]
                    \/ /\ after[i] = runOf(out)
                       /\ out.result.saved
                       /\ after[i].score > before[i].score
              /\ Len(before) = MAX_PHANTOMS =>
                    /\ Len(after) = MAX_PHANTOMS
                    /\ minScore(after) >= minScore(before)

\* the weakest phantom of a full room was just evicted by a better run, and
\* the room can still lose a phantom to a run on its spawn index
C34_Witness ==
    /\ last.event = "game:over"
    /\ last.branch = "evict"
    /\ \E msg \in GoodMessages :
          /\ Len(activePhantoms(keyOf(msg))) = MAX_PHANTOMS
          /\ outcome(msg).branch = "collision-replace"

----------------------------------------------------------------------------
(* addReplayToRoom cut short by a storage fault *)

\* the store an addReplayToRoom call leaves when the write after its first
\* done awaited writes rejects (done = all of them: the call completed)
interruptedAfter(st, seed, replay, done) ==
    applyWrites(st, seed, SubSeq(writesOf(st, seed, replay).writes, 1, done))

\* every phantom the metadata of room k lists in st has its blob stored
blobsStored(st, k) ==
    LET phantoms == getRoomMeta(st, k).active_phantoms
    IN \A i \in 1..Len(phantoms) : \E b \in st.replays[k] : b.id = phantoms[i].replayId

\* C35: when a storage fault interrupts addReplayToRoom at any await point,
\* the persisted metadata of a room whose phantoms all had their blobs still
\* lists only phantoms whose blob is stored.
C35_FaultKeepsBlobsStored ==
    \A msg \in GoodMessages :
        LET replay == Val(outcome(msg).handed)
            k == keyOf(msg)
        IN blobsStored(store, k) =>
              \A done \in 0..Len(writesOf(store, k, replay).writes) :
                 blobsStored(interruptedAfter(store, k, replay, done), k)

----------------------------------------------------------------------------
(* The ELO a run is submitted with *)

\* payloads that carry the submitting player's ELO
EloPayloads ==
    {[seed |-> seed,
      replay |-> [f \in DOMAIN goodReplay(score, k) \cup {"elo"} |->
                     IF f = "elo" THEN elo ELSE goodReplay(score, k)[f]]] :
        seed \in Seeds, score \in Scores, k \in SpawnIndices, elo \in {400, 1600}}

\* C36: the ELO submitted with an admitted run is carried into its
\* PhantomInfo, so the average ELO findRoomForPlayer computes for a room
\* whose only phantom is that run is the run's ELO, not 1000.
C36_EloCarriedIntoPhantom ==
    \A playerId \in Players, payload \in EloPayloads :
        LET out == processGameOver(store, playerId, payload, now)
            after == getRoomMeta(out.store, toString(payload.seed))
        IN out.result.saved =>
              /\ \E i \in 1..Len(after.active_phantoms) :
                    /\ after.active_phantoms[i].replayId = out.result.replayId
                    /\ Has(after.active_phantoms[i], "elo")
                    /\ after.active_phantoms[i].elo = payload.replay.elo
              /\ Len(after.active_phantoms) = 1 =>
                    avgElo(after) = [num |-> payload.replay.elo, den |-> 1]

----------------------------------------------------------------------------
(* Recording on the client: ReplayRecorder, and a ReplayPlayer built from   *)
(* what it recorded.  subject holds the recorder, playerA the ReplayPlayer  *)
(* once it is built, verdict what the player's tick() calls returned.       *)

\* bounds of the recorder model
MaxRecTicks == 3
MaxInputs == 2

RecordedDirections == {"TURN_LEFT", "ROLL_RIGHT"}

newReplayRecorder(seed, spawnIndex) ==
    [inputLog |-> <<>>, currentTick |-> 0, isRecording |-> FALSE,
     startParams |-> [seed |-> seed, spawnIndex |-> spawnIndex]]

start(rec) == [rec EXCEPT !.inputLog = <<>>, !.currentTick = 0, !.isRecording = TRUE]

stop(rec) == [rec EXCEPT !.isRecording = FALSE]

recorderTick(rec) == IF rec.isRecording THEN [rec EXCEPT !.currentTick = @ + 1] ELSE rec

recordInput(rec, direction) ==
    IF ~rec.isRecording THEN rec
    ELSE [rec EXCEPT !.inputLog = Append(@, <<rec.currentTick, direction>>)]

getReplayData(rec, finalScore) ==
    [startParams |-> rec.startParams, finalScore |-> finalScore,
     deathTick |-> rec.currentTick, inputLog |-> rec.inputLog]

\* new ReplayPlayer(data as ReplayData), the id being the one the replay is stored under
playerOfRecording(rec) ==
    LET data == getReplayData(rec, 10)
    IN newReplayPlayer([f \in DOMAIN data \cup {"id"} |-> IF f = "id" THEN <<P1, 1>> ELSE data[f]])

InitRecorder ==
    /\ ServerIdle
    /\ subject = Some(newReplayRecorder(42, 0))
    /\ verdict = None
    /\ playerA = None
    /\ playerB = None

building == playerA = None

StartRecording ==
    /\ building
    /\ subject' = Some(start(Val(subject)))
    /\ UNCHANGED <<verdict, playerA, playerB>>
    /\ UNCHANGED <<serverVars, callVars>>

StopRecording ==
    /\ building
    /\ subject' = Some(stop(Val(subject)))
    /\ UNCHANGED <<verdict, playerA, playerB>>
    /\ UNCHANGED <<serverVars, callVars>>

RecorderTick ==
    /\ building
    /\ Val(subject).currentTick < MaxRecTicks
    /\ subject' = Some(recorderTick(Val(subject)))
    /\ UNCHANGED <<verdict, playerA, playerB>>
    /\ UNCHANGED <<serverVars, callVars>>

RecordInput ==
    /\ building
    /\ Len(Val(subject).inputLog) < MaxInputs
    /\ \E direction \in RecordedDirections :
          subject' = Some(recordInput(Val(subject), direction))
    /\ UNCHANGED <<verdict, playerA, playerB>>
    /\ UNCHANGED <<serverVars, callVars>>

BuildPlayer ==
    /\ building
    /\ playerA' = Some(playerOfRecording(Val(subject)))
    /\ verdict' = Some(<<>>)
    /\ UNCHANGED <<subject, playerB>>
    /\ UNCHANGED <<serverVars, callVars>>

PlayerTick ==
    /\ ~building
    /\ ~isDeadNow(Val(playerA))
    /\ LET out == tick(Val(playerA))
       IN /\ playerA' = Some(out.player)
          /\ verdict' = Some(Append(Val(verdict), out.action))
    /\ UNCHANGED <<subject, playerB>>
    /\ UNCHANGED <<serverVars, callVars>>

NextRecorder ==
    StartRecording \/ StopRecording \/ RecorderTick \/ RecordInput \/ BuildPlayer \/ PlayerTick

SpecRecorder == InitRecorder /\ [][NextRecorder]_vars

isAction(a) == a # "null"

directionsOf(log) == [i \in DOMAIN log |-> log[i][2]]

RECURSIVE recordedBelow(_, _)
recordedBelow(log, deathTick) ==
    IF log = <<>> THEN <<>>
    ELSE IF Head(log)[1] < deathTick
         THEN <<Head(log)>> \o recordedBelow(Tail(log), deathTick)
         ELSE recordedBelow(Tail(log), deathTick)

recordedAt(log, k) == {i \in DOMAIN log : log[i][1] = k}

\* C37: once a ReplayPlayer built from a recording has played to its death,
\* the actions its tick() calls returned are the recorded inputs below
\* deathTick, all of them and in order, and the k-th call returned the input
\* recorded at tick k whenever exactly one was recorded there.
C37_RecordingReplayed ==
    (~building /\ isDeadNow(Val(playerA))) =>
        LET rec == Val(subject)
            returned == Val(verdict)
        IN /\ SelectSeq(returned, isAction)
                 = directionsOf(recordedBelow(rec.inputLog, rec.currentTick))
           /\ \A k \in DOMAIN returned :
                 (k < rec.currentTick /\ Cardinality(recordedAt(rec.inputLog, k)) = 1) =>
                     \E i \in recordedAt(rec.inputLog, k) : returned[k] = rec.inputLog[i][2]

============================================================================
